---- MODULE Spec2Model ----
(***************************************************************************)
(* A model of the i-boss agency directory scraper:                         *)
(*   - Database (src/scraper/iboss_scraper.py:15-331): the SQLite store    *)
(*     with the tables categories, agencies and scraping_status;           *)
(*   - IBossScraper (src/scraper/iboss_scraper.py:334-1064): discovery,    *)
(*     paginated listing extraction, detail backfill, export;              *)
(*   - the website and the logo server, whose answers are the inputs.      *)
(*                                                                         *)
(* Text values are sequences of one-character strings, so that the code's *)
(* string operations (regex search, substitution, truncation, formatting) *)
(* are computed on characters.  Python's None / SQL NULL is the value     *)
(* None below, which no text equals.                                       *)
(***************************************************************************)
EXTENDS Integers, Sequences, FiniteSets, TLC

VARIABLES
    categories,       \* table categories: row id = position (AUTOINCREMENT, no deletes)
    agencies,         \* table agencies
    scraping_status,  \* table scraping_status (one row per session)
    files,            \* logo files on disk: path -> content
    loc,              \* the page the browser shows: its address and its content
    self,             \* the IBossScraper instance: config, session_id, counters
    fr,               \* local variables of the methods that are executing
    pc,               \* position of the process in scrape_all
    hist              \* what happened in the run so far; the program never reads it

vars == <<categories, agencies, scraping_status, files, loc, self, fr, pc, hist>>
storeVars == <<categories, agencies, scraping_status>>

----------------------------------------------------------------------------
(* Text *)

None == <<"None">>
NA == <<"N", "/", "A">>
Now == <<"CURRENT_TIMESTAMP">>

\* Python truthiness of an optional text: None and "" are false
Truthy(s) == s # None /\ s # <<>>

Min(S) == CHOOSE m \in S : \A n \in S : m <= n
Max(S) == CHOOSE m \in S : \A n \in S : m >= n
MinOf(a, b) == IF a <= b THEN a ELSE b

RECURSIVE Concat(_)
Concat(ss) == IF ss = <<>> THEN <<>> ELSE Head(ss) \o Concat(Tail(ss))

\* all sequences over S of length at most n
SeqsUpTo(S, n) == UNION { [1..k -> S] : k \in 0..n }

Range(s) == { s[i] : i \in DOMAIN s }

----------------------------------------------------------------------------
(* Database *)

CategoryRow(name, link, count) ==
    [category_name |-> name, category_link |-> link, agency_count |-> count,
     scraped |-> FALSE]

\* a variant without the lookup of the existing row
insert_category_no_lookup(tab, category_name, category_link, agency_count) ==
    [tab |-> Append(tab, CategoryRow(category_name, category_link, agency_count)),
     id |-> Len(tab) + 1]

insert_category(tab, category_name, category_link, agency_count) ==
    LET existing == { i \in DOMAIN tab : tab[i].category_name = category_name }
    IN  IF existing # {}
        THEN [tab |-> [tab EXCEPT ![Min(existing)] =
                          [@ EXCEPT !.category_link = category_link,
                                    !.agency_count = agency_count]],
              id |-> Min(existing)]
        ELSE [tab |-> Append(tab, CategoryRow(category_name, category_link, agency_count)),
              id |-> Len(tab) + 1]

AgencyRow(category_id, category_name, agency_name, agency_url, agency_logo, agency_desc, agency_idx, agency_detail_url, local_logo_path) ==
    [category_id |-> category_id, category_name |-> category_name,
     agency_name |-> agency_name, agency_url |-> agency_url,
     agency_logo |-> agency_logo, local_logo_path |-> local_logo_path,
     agency_desc |-> agency_desc, agency_idx |-> agency_idx,
     agency_detail_url |-> agency_detail_url,
     agency_detail_desc |-> None, detailed_scraped |-> FALSE]

\* a variant that replaces the existing row by a new one (INSERT OR REPLACE)
insert_agency_replace(tab, category_id, category_name, agency_name, agency_url, agency_logo, agency_desc, agency_idx, agency_detail_url, local_logo_path) ==
    LET existing == { i \in DOMAIN tab : tab[i].category_id = category_id
                                         /\ tab[i].agency_name = agency_name }
        row == AgencyRow(category_id, category_name, agency_name, agency_url, agency_logo,
                         agency_desc, agency_idx, agency_detail_url, local_logo_path)
    IN  IF existing # {}
        THEN [tab |-> [tab EXCEPT ![Min(existing)] = row], id |-> Min(existing)]
        ELSE [tab |-> Append(tab, row), id |-> Len(tab) + 1]

\* a variant whose lookup is by agency_name alone
insert_agency_by_name(tab, category_id, category_name, agency_name, agency_url, agency_logo, agency_desc, agency_idx, agency_detail_url, local_logo_path) ==
    LET existing == { i \in DOMAIN tab : tab[i].agency_name = agency_name }
        first == CHOOSE m \in existing : \A n \in existing : m <= n
    IN  IF existing # {}
        THEN [tab |-> [tab EXCEPT ![first] =
                          [@ EXCEPT !.agency_url = agency_url,
                                    !.agency_logo = agency_logo,
                                    !.local_logo_path = local_logo_path,
                                    !.agency_desc = agency_desc,
                                    !.agency_idx = agency_idx,
                                    !.agency_detail_url = agency_detail_url]],
              id |-> first]
        ELSE [tab |-> Append(tab, AgencyRow(category_id, category_name, agency_name,
                                           agency_url, agency_logo, agency_desc,
                                           agency_idx, agency_detail_url,
                                           local_logo_path)),
              id |-> Len(tab) + 1]

insert_agency(tab, category_id, category_name, agency_name, agency_url, agency_logo, agency_desc, agency_idx, agency_detail_url, local_logo_path) ==
    LET existing == { i \in DOMAIN tab : tab[i].category_id = category_id
                                         /\ tab[i].agency_name = agency_name }
    IN  IF existing # {}
        THEN [tab |-> [tab EXCEPT ![Min(existing)] =
                          [@ EXCEPT !.agency_url = agency_url,
                                    !.agency_logo = agency_logo,
                                    !.local_logo_path = local_logo_path,
                                    !.agency_desc = agency_desc,
                                    !.agency_idx = agency_idx,
                                    !.agency_detail_url = agency_detail_url]],
              id |-> Min(existing)]
        ELSE [tab |-> Append(tab, AgencyRow(category_id, category_name, agency_name,
                                           agency_url, agency_logo, agency_desc,
                                           agency_idx, agency_detail_url,
                                           local_logo_path)),
              id |-> Len(tab) + 1]

\* a variant that sets the flag and leaves the description
update_agency_detail_flag_only(tab, agency_id, detail_desc) ==
    IF agency_id \in DOMAIN tab
    THEN [tab EXCEPT ![agency_id] = [@ EXCEPT !.detailed_scraped = TRUE]]
    ELSE tab

\* UPDATE ... WHERE id = ? touches no row when the id is absent
update_agency_detail(tab, agency_id, detail_desc) ==
    IF agency_id \in DOMAIN tab
    THEN [tab EXCEPT ![agency_id] = [@ EXCEPT !.agency_detail_desc = detail_desc,
                                              !.detailed_scraped = TRUE]]
    ELSE tab

\* a variant whose query has no WHERE clause
get_agencies_regardless(tab) ==
    [i \in DOMAIN tab |-> [id |-> i, agency_name |-> tab[i].agency_name,
                           agency_idx |-> tab[i].agency_idx,
                           agency_detail_url |-> tab[i].agency_detail_url]]

\* a variant whose query also asks for agency_detail_url IS NOT NULL
get_agencies_with_url_without_details(tab) ==
    LET ids == { i \in DOMAIN tab : ~tab[i].detailed_scraped
                                    /\ tab[i].agency_detail_url # <<"None">> }
        RECURSIVE InOrder(_)
        InOrder(S) == IF S = {} THEN <<>>
                      ELSE LET i == CHOOSE m \in S : \A n \in S : m <= n
                           IN <<[id |-> i, agency_name |-> tab[i].agency_name,
                                 agency_idx |-> tab[i].agency_idx,
                                 agency_detail_url |-> tab[i].agency_detail_url]>>
                              \o InOrder(S \ {i})
    IN  InOrder(ids)

\* (id, agency_name, agency_idx, agency_detail_url) of the rows with detailed_scraped = 0
get_agencies_without_details(tab) ==
    LET ids == { i \in DOMAIN tab : ~tab[i].detailed_scraped }
        RECURSIVE InOrder(_)
        InOrder(S) == IF S = {} THEN <<>>
                      ELSE LET i == Min(S)
                           IN <<[id |-> i, agency_name |-> tab[i].agency_name,
                                 agency_idx |-> tab[i].agency_idx,
                                 agency_detail_url |-> tab[i].agency_detail_url]>>
                              \o InOrder(S \ {i})
    IN  InOrder(ids)

mark_category_scraped(tab, category_id) ==
    IF category_id \in DOMAIN tab
    THEN [tab EXCEPT ![category_id] = [@ EXCEPT !.scraped = TRUE]]
    ELSE tab

get_unscraped_categories(tab) == { i \in DOMAIN tab : ~tab[i].scraped }

SessionRow ==
    [session_end |-> None, categories_total |-> 0, categories_scraped |-> 0,
     agencies_total |-> 0, agencies_scraped |-> 0, details_total |-> 0,
     details_scraped |-> 0, status |-> "running"]

\* a variant that takes up a session row left 'running'
start_scraping_session_resume(tab) ==
    LET running == { i \in DOMAIN tab : tab[i].status = "running" }
    IN  IF running # {} THEN [tab |-> tab, id |-> Min(running)]
        ELSE [tab |-> Append(tab, SessionRow), id |-> Len(tab) + 1]

start_scraping_session(tab) == [tab |-> Append(tab, SessionRow), id |-> Len(tab) + 1]

\* a variant that writes the whole row, with 0 for the arguments that are None
update_scraping_status_whole_row(tab, session_id, upd) ==
    IF session_id \notin DOMAIN tab THEN tab
    ELSE [tab EXCEPT ![session_id] =
            [f \in DOMAIN @ |-> IF f \in DOMAIN upd THEN upd[f]
                                ELSE IF f \in {"status", "session_end"} THEN @[f]
                                ELSE 0]]

\* upd: the keyword arguments that are not None, as a record
update_scraping_status(tab, session_id, upd) ==
    IF session_id \notin DOMAIN tab THEN tab
    ELSE [tab EXCEPT ![session_id] =
            [f \in DOMAIN @ |->
                IF f \in DOMAIN upd THEN upd[f]
                ELSE IF f = "session_end" /\ "status" \in DOMAIN upd
                                          /\ upd["status"] = "completed" THEN Now
                ELSE @[f]]]

----------------------------------------------------------------------------
(* IBossScraper: pure helpers *)

BaseUrl == <<"https://www.i-boss.co.kr">>
DetailPath == <<"/ab-7554-">>
LogosDir == <<"logos/">>
PngSuffix == <<".png">>

Digits == {"0", "1", "2", "3", "4", "5", "6", "7", "8", "9"}
Whitespace == {" ", "\n", "\t"}
UnsafeChars == {"\\", "/", "*", "?", ":", "\"", "<", ">", "|"}

\* a variant for the pattern idx=(\d): one digit
DigitRun_one(h, q) == <<h[q]>>

\* the longest run of digits of h that starts at position q
RECURSIVE DigitRun(_, _)
DigitRun(h, q) ==
    IF q <= Len(h) /\ h[q] \in Digits THEN <<h[q]>> \o DigitRun(h, q + 1) ELSE <<>>

\* whether the pattern idx=(\d+) matches h at position p
IdxMatchAt(h, p) ==
    /\ p + 4 <= Len(h)
    /\ SubSeq(h, p, p + 3) = <<"i", "d", "x", "=">>
    /\ h[p + 4] \in Digits

\* re.search: the leftmost position where the pattern matches, the group it captures
RECURSIVE IdxSearch(_, _)
IdxSearch(h, p) ==
    IF p > Len(h) THEN None
    ELSE IF IdxMatchAt(h, p) THEN DigitRun(h, p + 4)
    ELSE IdxSearch(h, p + 1)

extract_agency_idx(href) ==
    IF ~Truthy(href) THEN None ELSE IdxSearch(href, 1)

\* lines 606-616: agency_idx and agency_detail_url of a listing entry
DeriveIdx(href) ==
    LET agency_idx == IF Truthy(href) THEN extract_agency_idx(href) ELSE None
    IN  [agency_idx |-> agency_idx,
         agency_detail_url |-> IF Truthy(agency_idx)
                               THEN BaseUrl \o DetailPath \o agency_idx
                               ELSE None]

\* re.sub(r'[\\/*?:"<>|]', "_", name)
Sanitize(name) == [i \in DOMAIN name |-> IF name[i] \in UnsafeChars THEN "_" ELSE name[i]]

LogoPath(category_name, agency_name) ==
    LogosDir \o Sanitize(category_name) \o <<"_">> \o Sanitize(agency_name) \o PngSuffix

\* a variant without the os.path.exists check
download_logo_no_exists_check(fs, response, logo_url, category_name, agency_name) ==
    LET logo_path == LogoPath(category_name, agency_name)
    IN  IF ~Truthy(logo_url) \/ logo_url = NA
        THEN [files |-> fs, ret |-> None, fetched |-> FALSE]
        ELSE CASE response = "200" ->
                    [files |-> (logo_path :> "complete") @@ fs, ret |-> logo_path,
                     fetched |-> TRUE]
               [] response = "broken" ->
                    [files |-> (logo_path :> "partial") @@ fs, ret |-> None,
                     fetched |-> TRUE]
               [] OTHER ->
                    [files |-> fs, ret |-> None, fetched |-> TRUE]

\* download_logo(logo_url, category_name, agency_name) on the disk fs, when the
\* server answers with `response`: the files afterwards, the value returned, whether
\* a request was sent
download_logo(fs, response, logo_url, category_name, agency_name) ==
    LET logo_path == LogoPath(category_name, agency_name)
    IN  IF ~Truthy(logo_url) \/ logo_url = NA
        THEN [files |-> fs, ret |-> None, fetched |-> FALSE]
        ELSE IF logo_path \in DOMAIN fs
        THEN [files |-> fs, ret |-> logo_path, fetched |-> FALSE]
        ELSE CASE response = "200" ->
                    [files |-> (logo_path :> "complete") @@ fs, ret |-> logo_path,
                     fetched |-> TRUE]
               [] response = "broken" ->   \* the stream fails after the file was opened
                    [files |-> (logo_path :> "partial") @@ fs, ret |-> None,
                     fetched |-> TRUE]
               [] OTHER ->                 \* another HTTP status, or requests.get raises
                    [files |-> fs, ret |-> None, fetched |-> TRUE]

\* textContent ? textContent.substring(0, 1000) : null
BodyBudget == 1000
BodyText(text) ==
    IF ~Truthy(text) THEN None ELSE SubSeq(text, 1, MinOf(Len(text), BodyBudget))

\* re.sub(r'\s+', ' ', text): every maximal run of whitespace becomes one space
CollapseWhitespace(text) ==
    LET Indexed == [i \in DOMAIN text |-> <<i, text[i]>>]
        Keep(e) == \/ e[2] \notin Whitespace
                   \/ e[1] = 1
                   \/ text[e[1] - 1] \notin Whitespace
        kept == SelectSeq(Indexed, Keep)
    IN  [i \in DOMAIN kept |-> IF kept[i][2] \in Whitespace THEN " " ELSE kept[i][2]]

\* str.strip()
Strip(text) ==
    LET solid == { i \in DOMAIN text : text[i] \notin Whitespace }
    IN  IF solid = {} THEN <<>> ELSE SubSeq(text, Min(solid), Max(solid))

\* a variant that forgets .strip()
CleanedText_unstripped(body_text) == CollapseWhitespace(body_text)

CleanedText(body_text) == Strip(CollapseWhitespace(body_text))

\* get_agency_detail lines 884-931: the description to record for a detail page whose
\* first resolving content selector has the text intro (None: no selector resolves)
\* and whose body has the text body; None when the method returns without recording
detail_description(intro, body) ==
    IF intro # None THEN intro
    ELSE IF Truthy(BodyText(body)) THEN CleanedText(BodyText(body))
    ELSE None

\* int(text): the number a string of digits denotes; -1 stands for ValueError
RECURSIVE DigitsValue(_)
DigitsValue(t) ==
    IF t = <<>> THEN 0
    ELSE 10 * DigitsValue(SubSeq(t, 1, Len(t) - 1))
         + (CHOOSE d \in 0..9 : ToString(d) = t[Len(t)])
IntOf(t) == IF Truthy(t) /\ Range(t) \subseteq Digits THEN DigitsValue(t) ELSE -1

----------------------------------------------------------------------------
(* The browser: the address it shows and what the page at that address holds *)

NoPager == [kind |-> "none"]
Shown(kind, url, content) ==
    [kind |-> kind, url |-> url, entries |-> content.entries, pager |-> content.pager,
     intro |-> content.intro, body |-> content.body]
NoContent == [entries |-> <<>>, pager |-> NoPager, intro |-> None, body |-> None]

Blank == Shown("blank", <<>>, NoContent)
Directory == Shown("directory", BaseUrl \o <<"/ab-7553">>, NoContent)
\* a listing page: its entry elements and its pagination control
Listing(url, page) == Shown("listing", url, [NoContent EXCEPT !.entries = page.entries, !.pager = page.pager])
\* a detail page: the text of the first content selector that resolves (None: none
\* does) and document.body.textContent
Detail(url, page) == Shown("detail", url, [NoContent EXCEPT !.intro = page.intro, !.body = page.body])

\* navigate_to_url(url, retries): first_ok is the attempt that succeeds (0: none does).
\* The attempts made and the value returned; range(0) makes no attempt and returns None.
navigate_to_url(first_ok, retries) ==
    IF first_ok \in 1..retries THEN [ok |-> TRUE, attempts |-> first_ok]
    ELSE [ok |-> FALSE, attempts |-> retries]

AbsoluteUrl(href) == IF Len(href) > 0 /\ Head(href) = Head(BaseUrl) THEN href ELSE BaseUrl \o href

----------------------------------------------------------------------------
(* IBossScraper *)

ListingRetries == 3
DetailRetries == 2

\* bounds of the model
MaxRuns == 2      \* processes started one after the other on the same store
MaxVisits == 3    \* listing pages visited per category
MaxCap == 2      \* largest --num-agencies

Frame0 ==
    [categories |-> <<>>, ci |-> 0,
     agencies_collected |-> 0, current_page |-> 0, has_next_page |-> FALSE,
     agency_elements |-> <<>>, idx |-> 0, details |-> <<>>, di |-> 0]

\* hist, per run:
\*   runs           processes started so far
\*   listed         names of the categories get_agencies_in_category was called for
\*   start_scraped  names of the categories that had scraped = 1 when the run started
\*   exported       export_to_csv was called
\*   fatal          what ended scrape_all early: "no_categories", "value_error"
\*                  (int() of a count), "store" (a store fault), "export" (an error
\*                  raised by export_to_csv)
\*   exit           the exit status of the process, -1 while it runs
\*   start_agencies the agencies table when the run began
\*   discovered     the list get_categories returned
\*   export_ok      what export_to_csv returned
\*   upserts        calls of insert_agency that returned
\*   aborts         calls of get_agencies_in_category that an error ended
\*   start_pending  ids of the rows with detailed_scraped = 0 when the detail pass began
\*   attempted      ids get_agency_detail was called with, in order
\* over all runs:
\*   skipped        ids get_agency_detail returned for at line 871-873 (no detail URL)
\* and per call of get_agencies_in_category / get_agency_detail:
\*   aborted        an error ended the call (line 865)
\*   clicks         calls of next_button.click() (line 837)
\*   entry_errors   entries whose processing raised an error (line 691)
\*   nav_ok         navigate_to_url returned True
\*   pag_err        the page-advance step raised an error
\*   late_click     a next element was clicked with the cap already reached
\*   offered        entry elements seen on the pages queried that have a name and
\*                  raise no error
\*   persisted      the agency names insert_agency was called with and returned for
\*   outcome        how get_agency_detail ended
Hist0 ==
    [runs |-> 0, listed |-> <<>>, start_scraped |-> {}, exported |-> FALSE,
     fatal |-> "none", exit |-> -1, aborts |-> 0, skipped |-> {},
     start_pending |-> {}, attempted |-> <<>>, clicks |-> 0, discovered |-> <<>>,
     start_agencies |-> <<>>, export_ok |-> TRUE, upserts |-> 0,
     aborted |-> FALSE, entry_errors |-> 0,
     nav_ok |-> FALSE, pag_err |-> FALSE, late_click |-> FALSE, offered |-> 0,
     persisted |-> {}, outcome |-> "none"]

\* what __init__ acquires: the playwright driver, the browser, its context (with the
\* page) and the connection of the Database
Resources == {"playwright", "browser", "context", "conn"}

Self0 ==
    [open |-> {}, session_id |-> 0, categories_total |-> 0, categories_scraped |-> 0,
     agencies_total |-> 0, agencies_scraped |-> 0, details_total |-> 0,
     details_scraped |-> 0, target_categories |-> None,
     max_agencies_per_category |-> 0, skip_details |-> FALSE]

\* IBossScraper.__init__ (lines 335-375), called by main with the parsed arguments
StartRun(target_categories, max_agencies_per_category, skip_details) ==
    /\ pc = "idle"
    /\ LET s == start_scraping_session(scraping_status)
       IN  /\ scraping_status' = s.tab
           /\ self' = [Self0 EXCEPT !.open = Resources, !.session_id = s.id,
                           !.target_categories = target_categories,
                           !.max_agencies_per_category = max_agencies_per_category,
                           !.skip_details = skip_details]
    /\ loc' = Blank
    /\ fr' = Frame0
    /\ pc' = "get_categories"
    /\ hist' = [Hist0 EXCEPT !.runs = hist.runs + 1, !.skipped = hist.skipped,
                    !.start_agencies = agencies,
                    !.start_scraped = { categories[i].category_name :
                        i \in { j \in DOMAIN categories : categories[j].scraped } }]
    /\ UNCHANGED <<categories, agencies, files>>

\* the loop of get_categories (lines 414-437) over the category elements: an element
\* without href raises AttributeError, which is caught and skips the element
RECURSIVE InsertCategories(_, _, _)
InsertCategories(tab, elements, data) ==
    IF elements = <<>> THEN [tab |-> tab, data |-> data]
    ELSE LET el == Head(elements)
             agency_count == IF el.agency_count = None THEN <<"0">> ELSE el.agency_count
         IN  IF el.href = None
             THEN InsertCategories(tab, Tail(elements), data)
             ELSE LET category_link == AbsoluteUrl(el.href)
                      ins == insert_category(tab, el.category_name, category_link, agency_count)
                  IN  InsertCategories(ins.tab, Tail(elements),
                          Append(data, [id |-> ins.id, category_name |-> el.category_name,
                                        category_link |-> category_link,
                                        agency_count |-> agency_count]))

\* get_categories (lines 396-444). elements: the category elements of the directory
\* page. first_ok = 0: the page did not load; then, as with no element,
\* wait_for_selector raises and [] is returned
GetCategories(first_ok, elements) ==
    /\ pc = "get_categories"
    /\ LET nav == navigate_to_url(first_ok, ListingRetries)
           category_elements == IF nav.ok THEN elements ELSE <<>>
           res == InsertCategories(categories, category_elements, <<>>)
       IN  /\ loc' = IF nav.ok THEN Directory ELSE loc
           /\ IF category_elements = <<>>
              THEN /\ fr' = [fr EXCEPT !.categories = <<>>]
                   /\ UNCHANGED <<categories, scraping_status, self>>
              ELSE /\ self' = [self EXCEPT !.categories_total = Len(category_elements)]
                   /\ scraping_status' = update_scraping_status(scraping_status, self.session_id,
                                            [categories_total |-> Len(category_elements)])
                   /\ categories' = res.tab
                   /\ fr' = [fr EXCEPT !.categories = res.data]
           /\ hist' = [hist EXCEPT !.discovered =
                           IF category_elements = <<>> THEN <<>> ELSE res.data]
    /\ pc' = "filter"
    /\ UNCHANGED <<agencies, files>>

\* a variant without the filter
Selected_unfiltered(cats, target_categories) == cats

\* scrape_all lines 994-999: the categories that the target list selects
Selected(cats, target_categories) ==
    IF target_categories # None /\ target_categories # <<>>
    THEN LET Wanted(c) == c.category_name \in Range(target_categories)
         IN  SelectSeq(cats, Wanted)
    ELSE cats

RECURSIVE SumCounts(_)
SumCounts(cats) ==
    IF cats = <<>> THEN 0 ELSE IntOf(Head(cats).agency_count) + SumCounts(Tail(cats))

\* scrape_all lines 1034-1039: get_categories returned no category
NoCategories ==
    /\ pc = "filter"
    /\ fr.categories = <<>>
    /\ scraping_status' = update_scraping_status(scraping_status, self.session_id,
                                                 [status |-> "failed"])
    /\ hist' = [hist EXCEPT !.fatal = "no_categories"]
    /\ pc' = "finally"
    /\ UNCHANGED <<categories, agencies, files, loc, self, fr>>

\* scrape_all lines 994-1006
FilterCategories ==
    /\ pc = "filter"
    /\ fr.categories # <<>>
    /\ LET cats == Selected(fr.categories, self.target_categories)
       IN  /\ \A i \in DOMAIN cats : IntOf(cats[i].agency_count) >= 0
           /\ self' = [self EXCEPT !.agencies_total = SumCounts(cats)]
           /\ scraping_status' = update_scraping_status(scraping_status, self.session_id,
                                                        [agencies_total |-> SumCounts(cats)])
           /\ fr' = [fr EXCEPT !.categories = cats, !.ci = 1]
    /\ pc' = "for_category"
    /\ UNCHANGED <<categories, agencies, files, loc, hist>>

\* scrape_all lines 1002 and 1041-1046: int() of an advisory count that is no number
\* raises ValueError, which the handler of scrape_all turns into status 'failed'
FilterRaises ==
    /\ pc = "filter"
    /\ fr.categories # <<>>
    /\ LET cats == Selected(fr.categories, self.target_categories)
       IN  \E i \in DOMAIN cats : IntOf(cats[i].agency_count) < 0
    /\ scraping_status' = update_scraping_status(scraping_status, self.session_id,
                                                 [status |-> "failed"])
    /\ hist' = [hist EXCEPT !.fatal = "value_error"]
    /\ pc' = "finally"
    /\ UNCHANGED <<categories, agencies, files, loc, self, fr>>

\* scrape_all lines 1001-1006 and 1041-1046: the store raises in
\* update_scraping_status(agencies_total=...), after self.agencies_total was assigned;
\* the handler of scrape_all then records status 'failed'
FilterStoreFault ==
    /\ pc = "filter"
    /\ fr.categories # <<>>
    /\ LET cats == Selected(fr.categories, self.target_categories)
       IN  /\ \A i \in DOMAIN cats : IntOf(cats[i].agency_count) >= 0
           /\ self' = [self EXCEPT !.agencies_total = SumCounts(cats)]
           /\ fr' = [fr EXCEPT !.categories = cats]
    /\ scraping_status' = update_scraping_status(scraping_status, self.session_id,
                                                 [status |-> "failed"])
    /\ hist' = [hist EXCEPT !.fatal = "store"]
    /\ pc' = "finally"
    /\ UNCHANGED <<categories, agencies, files, loc>>

----------------------------------------------------------------------------
(* get_agencies_in_category (lines 499-867), one action per step of its loops *)

Category == fr.categories[fr.ci]

\* lines 551 and 697: the per-category cap is set and reached
CapReached(max_agencies_per_category, agencies_collected) ==
    max_agencies_per_category > 0 /\ agencies_collected >= max_agencies_per_category

\* variants: the check at the head of the loop body left out; the check after the
\* page comparing with > instead of >=
EntryCapCheck_absent == FALSE
PageCapCheck_late ==
    self.max_agencies_per_category > 0
    /\ fr.agencies_collected > self.max_agencies_per_category

\* line 551, at the head of the loop body
EntryCapCheck == CapReached(self.max_agencies_per_category, fr.agencies_collected)
\* line 697, after the page's entries
PageCapCheck == CapReached(self.max_agencies_per_category, fr.agencies_collected)

\* scrape_all lines 1009-1015 and get_agencies_in_category lines 499-521: the value
\* navigate_to_url returns is not looked at, so a page that did not load leaves the
\* browser where it was. page: what the category's first listing page holds
ForCategory(first_ok, page) ==
    /\ pc = "for_category"
    /\ fr.ci <= Len(fr.categories)
    /\ LET nav == navigate_to_url(first_ok, ListingRetries)
           shown == IF nav.ok THEN Listing(Category.category_link, page) ELSE loc
       IN  /\ loc' = shown
           /\ fr' = [fr EXCEPT !.agencies_collected = 0, !.current_page = 1,
                               !.has_next_page = TRUE, !.agency_elements = <<>>,
                               !.idx = 0]
           /\ hist' = [hist EXCEPT !.listed = Append(@, Category.category_name),
                                   !.nav_ok = nav.ok, !.pag_err = FALSE,
                                   !.late_click = FALSE, !.offered = 0,
                                   !.persisted = {}, !.aborted = FALSE, !.clicks = 0,
                                   !.entry_errors = 0]
    /\ pc' = "query"
    /\ UNCHANGED <<storeVars, files, self>>

\* an entry element that has a name element and whose processing raises no error
Extractable(e) == e.name # None /\ e.fault = "none"

\* lines 524-546: the entry elements of the page shown
QueryPage ==
    /\ pc = "query"
    /\ fr' = [fr EXCEPT !.agency_elements = loc.entries, !.idx = 1]
    /\ hist' = [hist EXCEPT !.offered = @ + Cardinality({ i \in DOMAIN loc.entries :
                                               Extractable(loc.entries[i]) })]
    /\ pc' = "entries"
    /\ UNCHANGED <<storeVars, files, loc, self>>

\* lines 865-867: an error outside the per-entry and pagination handlers (the page
\* query fails) ends the method without marking the category
ListingAbort ==
    /\ pc = "query"
    /\ hist' = [hist EXCEPT !.aborted = TRUE, !.aborts = @ + 1]
    /\ pc' = "listing_end"
    /\ UNCHANGED <<storeVars, files, loc, self, fr>>

\* a variant in which an error of one entry ends the method
AfterEntryError_abort == "listing_end"

\* lines 691-694: the handler inside the loop body prints the error; the for loop
\* goes on with the next entry
AfterEntryError == "entries"

\* lines 548-694: one pass of the loop body, for entry element e. With the cap
\* reached the loop is left (lines 551-554). No name element: the entry is skipped
\* (line 571). An error while extracting is caught at line 691; so is one raised by
\* insert_agency, after the logo was downloaded. response: the logo server's answer
ProcessEntry(response) ==
    /\ pc = "entries"
    /\ fr.idx <= Len(fr.agency_elements)
    /\ LET e == fr.agency_elements[fr.idx]
           d == DeriveIdx(e.href)
           dl == IF Truthy(e.logo) /\ e.logo # NA
                 THEN download_logo(files, response, e.logo, Category.category_name, e.name)
                 ELSE [files |-> files, ret |-> None, fetched |-> FALSE]
           ins == insert_agency(agencies, Category.id, Category.category_name, e.name, e.url, e.logo, e.desc, d.agency_idx, d.agency_detail_url, dl.ret)
       IN  IF EntryCapCheck
           THEN /\ fr' = [fr EXCEPT !.has_next_page = FALSE]
                /\ pc' = "after_entries"
                /\ UNCHANGED <<storeVars, files, self, hist>>
           ELSE IF e.name = None
           THEN /\ fr' = [fr EXCEPT !.idx = @ + 1]
                /\ pc' = "entries"
                /\ UNCHANGED <<storeVars, files, self, hist>>
           ELSE IF e.fault = "extract"
           THEN /\ fr' = [fr EXCEPT !.idx = @ + 1]
                /\ hist' = [hist EXCEPT !.entry_errors = @ + 1]
                /\ pc' = AfterEntryError
                /\ UNCHANGED <<storeVars, files, self>>
           ELSE IF e.fault = "store"
           THEN /\ fr' = [fr EXCEPT !.idx = @ + 1]
                /\ hist' = [hist EXCEPT !.entry_errors = @ + 1]
                /\ pc' = AfterEntryError
                /\ files' = dl.files
                /\ UNCHANGED <<storeVars, self>>
           ELSE /\ pc' = "entries"
                /\ files' = dl.files
                /\ agencies' = ins.tab
                /\ self' = [self EXCEPT !.agencies_scraped = @ + 1]
                /\ scraping_status' = update_scraping_status(scraping_status, self.session_id,
                                          [agencies_scraped |-> self.agencies_scraped + 1])
                /\ fr' = [fr EXCEPT !.idx = @ + 1, !.agencies_collected = @ + 1]
                /\ hist' = [hist EXCEPT !.persisted = @ \cup {e.name}, !.upserts = @ + 1]
                /\ UNCHANGED categories
    /\ UNCHANGED loc

\* the for loop over the entry elements ends
EntriesDone ==
    /\ pc = "entries"
    /\ fr.idx > Len(fr.agency_elements)
    /\ pc' = "after_entries"
    /\ UNCHANGED <<storeVars, files, loc, self, fr, hist>>

\* lines 696-852: the cap check after the page's entries, then the page-advance
\* decision. The pager of the page shown says what the search for a pagination control
\* and for its next element ends with:
\*   "none"     no pagination control (line 727)
\*   "nolinks"  a control without links (line 743)
\*   "nonext"   no next element chosen (line 844)
\*   "disabled" the next element's class contains 'disabled' or 'none' (line 841)
\*   "error"    an error is raised in the step (line 848)
\*   "next"     the next element is clicked (lines 836-840) and next_page loads
\* a variant that does not look at the class of the next element
Clicks_whatever_class(kind) == kind \in {"next", "disabled"}

\* lines 832-836: a next element was chosen and its class holds neither 'disabled'
\* nor 'none'
Clicks(kind) == kind = "next"

AfterEntries(next_page) ==
    /\ pc = "after_entries"
    /\ LET pager == loc.pager
       IN  IF PageCapCheck
           THEN /\ fr' = [fr EXCEPT !.has_next_page = FALSE]
                /\ pc' = "mark"
                /\ UNCHANGED <<loc, hist>>
           ELSE IF Clicks(pager.kind)
           THEN /\ fr.current_page < MaxVisits
                /\ loc' = Listing(loc.url, next_page)
                /\ fr' = [fr EXCEPT !.current_page = @ + 1]
                /\ hist' = [hist EXCEPT !.clicks = @ + 1, !.late_click =
                               @ \/ (self.max_agencies_per_category > 0
                                     /\ fr.agencies_collected >= self.max_agencies_per_category)]
                /\ pc' = "query"
           ELSE /\ fr' = [fr EXCEPT !.has_next_page = FALSE]
                /\ hist' = [hist EXCEPT !.pag_err = (pager.kind = "error")]
                /\ pc' = "mark"
                /\ UNCHANGED loc
    /\ UNCHANGED <<storeVars, files, self>>

\* lines 854-863
MarkScraped ==
    /\ pc = "mark"
    /\ categories' = mark_category_scraped(categories, Category.id)
    /\ self' = [self EXCEPT !.categories_scraped = @ + 1]
    /\ scraping_status' = update_scraping_status(scraping_status, self.session_id,
                              [categories_scraped |-> self.categories_scraped + 1])
    /\ pc' = "listing_end"
    /\ UNCHANGED <<agencies, files, loc, fr, hist>>

\* scrape_all line 1009: get_agencies_in_category has returned (its locals are gone),
\* the loop goes to the next category
ListingEnd ==
    /\ pc = "listing_end"
    /\ fr' = [Frame0 EXCEPT !.categories = fr.categories, !.ci = fr.ci + 1]
    /\ hist' = [Hist0 EXCEPT !.runs = hist.runs, !.listed = hist.listed,
                             !.start_scraped = hist.start_scraped,
                             !.aborts = hist.aborts, !.skipped = hist.skipped,
                             !.discovered = hist.discovered,
                             !.start_agencies = hist.start_agencies,
                             !.upserts = hist.upserts]
    /\ pc' = "for_category"
    /\ UNCHANGED <<storeVars, files, loc, self>>

\* a variant that leaves the loop after the first category
LoopExhausted_after_first(ci, cats) == ci > 1

\* line 1009: the for loop ends when the list has no further category
LoopExhausted(ci, cats) == ci > Len(cats)

ListingsDone ==
    /\ pc = "for_category"
    /\ LoopExhausted(fr.ci, fr.categories)
    /\ pc' = "details"
    /\ UNCHANGED <<storeVars, files, loc, self, fr, hist>>

----------------------------------------------------------------------------
(* The detail backfill (lines 869-986), export and the end of scrape_all *)

\* scrape_all lines 1018-1021 with skip_details set
\* a variant that ignores the flag
DetailsSkipped_never(skip_details) == FALSE

\* line 1018: if not self.skip_details ... else
DetailsSkipped(skip_details) == skip_details

SkipDetails ==
    /\ pc = "details"
    /\ DetailsSkipped(self.skip_details)
    /\ pc' = "export"
    /\ UNCHANGED <<storeVars, files, loc, self, fr, hist>>

\* scrape_all_agency_details lines 954-972
DetailsBegin ==
    /\ pc = "details"
    /\ ~DetailsSkipped(self.skip_details)
    /\ LET pending == get_agencies_without_details(agencies)
       IN  IF pending = <<>>
           THEN /\ pc' = "export"
                /\ UNCHANGED <<scraping_status, self, fr>>
           ELSE /\ self' = [self EXCEPT !.details_total = Len(pending)]
                /\ scraping_status' = update_scraping_status(scraping_status, self.session_id,
                                          [details_total |-> Len(pending)])
                /\ fr' = [fr EXCEPT !.details = pending, !.di = 1]
                /\ pc' = "detail"
    /\ hist' = [hist EXCEPT !.outcome = "none",
                            !.start_pending = { i \in DOMAIN agencies :
                                                  ~agencies[i].detailed_scraped }]
    /\ UNCHANGED <<categories, agencies, files, loc>>

\* a variant without the test of the detail URL
NoDetailUrl_never(agency_detail_url) == FALSE

\* line 871: if not agency_detail_url
NoDetailUrl(agency_detail_url) == ~Truthy(agency_detail_url)

\* get_agency_detail (lines 869-952) for the agency at position di of the pending list.
\* first_ok: the attempt at which the detail page loads (0: never); page: what the
\* detail page holds; raises: an error in the extraction block (lines 884-942), caught
\* at line 944.
\* The outcome is recorded: "no_url", "nav_failed", "error", "no_text", "selector",
\* "fallback".
GetAgencyDetail(first_ok, page, raises) ==
    /\ pc = "detail"
    /\ fr.di <= Len(fr.details)
    /\ LET a == fr.details[fr.di]
           nav == navigate_to_url(first_ok, DetailRetries)
           detail_desc == detail_description(page.intro, page.body)
           outcome == IF NoDetailUrl(a.agency_detail_url) THEN "no_url"
                      ELSE IF ~nav.ok THEN "nav_failed"
                      ELSE IF raises THEN "error"
                      ELSE IF detail_desc = None THEN "no_text"
                      ELSE IF page.intro = None THEN "fallback"
                      ELSE "selector"
       IN  /\ loc' = IF outcome \in {"no_url", "nav_failed"} THEN loc
                     ELSE Detail(a.agency_detail_url, page)
           /\ fr' = [fr EXCEPT !.di = @ + 1]
           /\ hist' = [hist EXCEPT !.outcome = outcome,
                                   !.attempted = Append(@, a.id),
                                   !.skipped = IF outcome = "no_url" THEN @ \cup {a.id}
                                               ELSE @]
           /\ IF outcome \in {"selector", "fallback"}
              THEN /\ agencies' = update_agency_detail(agencies, a.id, detail_desc)
                   /\ self' = [self EXCEPT !.details_scraped = @ + 1]
                   /\ scraping_status' = update_scraping_status(scraping_status,
                                             self.session_id,
                                             [details_scraped |-> self.details_scraped + 1])
              ELSE UNCHANGED <<agencies, scraping_status, self>>
    /\ pc' = "detail"
    /\ UNCHANGED <<categories, files>>

\* scrape_all_agency_details lines 974-983: the loop over the pending agencies ends
DetailsDone ==
    /\ pc = "detail"
    /\ fr.di > Len(fr.details)
    /\ pc' = "export"
    /\ UNCHANGED <<storeVars, files, loc, self, fr, hist>>

\* scrape_all line 1024: export_to_csv reads the tables and returns True, or False
\* when writing a file raised (lines 324-326); its result is not looked at
Export(ok) ==
    /\ pc = "export"
    /\ hist' = [hist EXCEPT !.exported = TRUE, !.export_ok = ok]
    /\ pc' = "complete"
    /\ UNCHANGED <<storeVars, files, loc, self, fr>>

\* export_to_csv line 278 and scrape_all lines 1041-1046: os.makedirs is outside the
\* try of export_to_csv, an error it raises reaches the handler of scrape_all
ExportRaises ==
    /\ pc = "export"
    /\ scraping_status' = update_scraping_status(scraping_status, self.session_id,
                                                 [status |-> "failed"])
    /\ hist' = [hist EXCEPT !.fatal = "export"]
    /\ pc' = "finally"
    /\ UNCHANGED <<categories, agencies, files, loc, self, fr>>

\* a variant that records 'failed' when export_to_csv returned False
Complete_if_exported ==
    /\ pc = "complete"
    /\ scraping_status' = update_scraping_status(scraping_status, self.session_id,
                              [status |-> IF hist.export_ok THEN "completed" ELSE "failed"])
    /\ pc' = "finally"
    /\ UNCHANGED <<categories, agencies, files, loc, self, fr, hist>>

\* scrape_all lines 1026-1032
Complete ==
    /\ pc = "complete"
    /\ scraping_status' = update_scraping_status(scraping_status, self.session_id,
                                                 [status |-> "completed"])
    /\ pc' = "finally"
    /\ UNCHANGED <<categories, agencies, files, loc, self, fr, hist>>

\* a variant of close without self.db.close()
close_without_db(open) == open \ {"context", "browser", "playwright"}

\* IBossScraper.close (lines 1052-1064) and Database.close (lines 328-331): what is
\* still open afterwards
close(open) == (((open \ {"context"}) \ {"browser"}) \ {"playwright"}) \ {"conn"}

\* scrape_all lines 1048-1050: finally, self.close(); scrape_all returns to main
Close ==
    /\ pc = "finally"
    /\ loc' = Blank
    /\ self' = [self EXCEPT !.open = close(self.open)]
    /\ pc' = "main"
    /\ UNCHANGED <<storeVars, files, fr, hist>>

\* main lines 44-50: scrape_all has returned without raising (it catches Exception),
\* main exports through a Database of its own, closes it, and the process ends with
\* exit status 0. The handlers of main (lines 52-59, sys.exit(1)) run only when
\* scrape_all raises, which no fault of this model makes it do.
MainExit ==
    /\ pc = "main"
    /\ hist' = [hist EXCEPT !.exit = 0]
    /\ pc' = "idle"
    /\ UNCHANGED <<storeVars, files, loc, self, fr>>

----------------------------------------------------------------------------
(* Inputs: what the website and the logo server may answer *)

Text(c) == <<c>>

\* category elements of the directory page
ElemA == [category_name |-> Text("A"), agency_count |-> Text("2"), href |-> <<"/", "a">>]
ElemB == [category_name |-> Text("B"), agency_count |-> Text("1"), href |-> <<"/", "b">>]
ElemBadCount == [ElemB EXCEPT !.agency_count = Text("-")]
ElemNoHref == [category_name |-> Text("C"), agency_count |-> None, href |-> None]
Directories == { <<>>, <<ElemA, ElemB>>, <<ElemA, ElemBadCount>>, <<ElemNoHref, ElemA>> }

\* entry elements of a listing page
HrefWithIdx == <<"/", "a", "b", "?", "i", "d", "x", "=", "4", "2", "&", "x", "=", "1">>
HrefNoIdx == <<"/", "a", "b">>
EntryX ==
    [name |-> Text("x"), href |-> HrefWithIdx, url |-> Text("u"), logo |-> Text("l"),
     desc |-> Text("d"), fault |-> "none"]
EntryY ==
    [name |-> Text("y"), href |-> HrefNoIdx, url |-> NA, logo |-> NA,
     desc |-> NA, fault |-> "none"]
EntryNoName == [EntryY EXCEPT !.name = None]
EntryExtractFault == [EntryX EXCEPT !.fault = "extract"]
EntryStoreFault == [EntryX EXCEPT !.fault = "store"]

StopPagers == { [kind |-> k] : k \in {"none", "nolinks", "nonext", "disabled", "error"} }
NextPager == [kind |-> "next"]
Pagers == StopPagers \cup {NextPager}

ListingPage(entries, pager) == [entries |-> entries, pager |-> pager]
Responses == {"200", "404", "broken"}

\* detail pages
DetailPage(intro, body) == [intro |-> intro, body |-> body]
LongBody ==
    [i \in 1..(BodyBudget + 2) |->
        IF i <= 2 THEN " " ELSE IF i > BodyBudget THEN "z" ELSE "a"]
DetailPages ==
    { DetailPage(<<"i", " ", "n">>, <<"b">>),
      DetailPage(<<>>, <<"b">>),
      DetailPage(None, <<" ", "a", "\n", "\t", "b", " ">>),
      DetailPage(None, <<" ", "\n">>),
      DetailPage(None, <<>>),
      DetailPage(None, None) }

----------------------------------------------------------------------------
(* The scraper run after run on one store *)

Targets == { None, <<Text("A")>> }
RunPages ==
    { ListingPage(<<EntryX, EntryY>>, [kind |-> "none"]),
      ListingPage(<<EntryNoName, EntryX>>, NextPager),
      ListingPage(<<EntryY>>, [kind |-> "error"]),
      ListingPage(<<>>, [kind |-> "disabled"]) }

Init ==
    /\ categories = <<>>
    /\ agencies = <<>>
    /\ scraping_status = <<>>
    /\ files = <<>>
    /\ loc = Blank
    /\ self = Self0
    /\ fr = Frame0
    /\ pc = "idle"
    /\ hist = Hist0

Next ==
    \/ \E t \in Targets, n \in 0..MaxCap, sk \in BOOLEAN : hist.runs = 0 /\ StartRun(t, n, sk)
    \/ \E f \in 0..1, els \in Directories : GetCategories(f, els)
    \/ NoCategories
    \/ FilterCategories
    \/ FilterRaises
    \/ FilterStoreFault
    \/ \E f \in 0..1, pg \in RunPages : ForCategory(f, pg)
    \/ QueryPage
    \/ ListingAbort
    \/ \E r \in Responses : ProcessEntry(r)
    \/ EntriesDone
    \/ \E pg \in RunPages : AfterEntries(pg)
    \/ MarkScraped
    \/ ListingEnd
    \/ ListingsDone
    \/ SkipDetails
    \/ DetailsBegin
    \/ \E f \in 0..1, pg \in DetailPages, raises \in BOOLEAN : GetAgencyDetail(f, pg, raises)
    \/ DetailsDone
    \/ \E ok \in BOOLEAN : Export(ok)
    \/ ExportRaises
    \/ Complete
    \/ Close
    \/ MainExit

Spec == Init /\ [][Next]_vars

----------------------------------------------------------------------------
(* Several runs, one after the other, on the store the earlier ones left *)

ResumeDirectories == { <<ElemA, ElemB>>, <<ElemBadCount>> }
ResumePages == { ListingPage(<<EntryX, EntryY>>, [kind |-> "none"]) }
ResumeDetailPages == { DetailPage(<<"i", "n">>, <<"b">>), DetailPage(None, None) }

NextResume ==
    \/ \E t \in Targets, sk \in BOOLEAN : hist.runs < MaxRuns /\ StartRun(t, 0, sk)
    \/ \E f \in 0..1, els \in ResumeDirectories : GetCategories(f, els)
    \/ NoCategories
    \/ FilterCategories
    \/ FilterRaises
    \/ FilterStoreFault
    \/ \E pg \in ResumePages : ForCategory(1, pg)
    \/ QueryPage
    \/ ListingAbort
    \/ ProcessEntry("200")
    \/ EntriesDone
    \/ \E pg \in ResumePages : AfterEntries(pg)
    \/ MarkScraped
    \/ ListingEnd
    \/ ListingsDone
    \/ SkipDetails
    \/ DetailsBegin
    \/ \E pg \in ResumeDetailPages : GetAgencyDetail(1, pg, FALSE)
    \/ DetailsDone
    \/ \E ok \in BOOLEAN : Export(ok)
    \/ ExportRaises
    \/ Complete
    \/ Close
    \/ MainExit

SpecResume == Init /\ [][NextResume]_vars

\* main.py lines 52-55 and scrape_all lines 1048-1050: KeyboardInterrupt during
\* scrape_all is no Exception, so the handler of scrape_all does not run and the
\* session row is left as it is; the finally block and main close the resources and
\* the process exits with 1
Interrupt ==
    /\ pc \notin {"idle", "finally", "main"}
    /\ self' = [self EXCEPT !.open = close(self.open)]
    /\ loc' = Blank
    /\ hist' = [hist EXCEPT !.fatal = "interrupt", !.exit = 1]
    /\ pc' = "idle"
    /\ UNCHANGED <<storeVars, files, fr>>

NextSessions ==
    \/ \E sk \in BOOLEAN : hist.runs < MaxRuns /\ StartRun(None, 0, sk)
    \/ \E f \in 0..1 : GetCategories(f, <<ElemA, ElemB>>)
    \/ NoCategories
    \/ FilterCategories
    \/ \E pg \in ResumePages : ForCategory(1, pg)
    \/ QueryPage
    \/ ProcessEntry("200")
    \/ EntriesDone
    \/ \E pg \in ResumePages : AfterEntries(pg)
    \/ MarkScraped
    \/ ListingEnd
    \/ ListingsDone
    \/ SkipDetails
    \/ DetailsBegin
    \/ \E pg \in ResumeDetailPages : GetAgencyDetail(1, pg, FALSE)
    \/ DetailsDone
    \/ \E ok \in BOOLEAN : Export(ok)
    \/ Complete
    \/ Close
    \/ MainExit
    \/ Interrupt

\* runs one after another on one store, any of which may be interrupted
SpecSessions == Init /\ [][NextSessions]_vars

----------------------------------------------------------------------------
(* The detail backfill on the store that listing extraction of one category left, *)
(* with detail pages whose text is longer than the budget                         *)

EntryZ == [EntryX EXCEPT !.name = Text("z"), !.href = <<"i", "d", "x", "=", "7">>]
DetailEntries == <<EntryX, EntryY, EntryZ>>
LongDetailPages == DetailPages \cup { DetailPage(None, LongBody) }

ListedCategory ==
    [id |-> 1, category_name |-> ElemA.category_name,
     category_link |-> AbsoluteUrl(ElemA.href), agency_count |-> ElemA.agency_count]

\* the agencies table after insert_agency for each of the entries, no logo downloaded
RECURSIVE ListedAgencies(_)
ListedAgencies(entries) ==
    IF entries = <<>> THEN <<>>
    ELSE LET e == entries[Len(entries)]
             d == DeriveIdx(e.href)
         IN  insert_agency(ListedAgencies(SubSeq(entries, 1, Len(entries) - 1)),
                           ListedCategory.id, ListedCategory.category_name, e.name, e.url,
                           e.logo, e.desc, d.agency_idx, d.agency_detail_url, None).tab

\* scrape_all at line 1018, after the listing loop over that one category
InitDetail ==
    /\ categories = mark_category_scraped(
                        insert_category(<<>>, ListedCategory.category_name,
                                        ListedCategory.category_link,
                                        ListedCategory.agency_count).tab, 1)
    /\ agencies = ListedAgencies(DetailEntries)
    /\ scraping_status =
          <<[SessionRow EXCEPT !.categories_total = 1, !.categories_scraped = 1,
                               !.agencies_total = IntOf(ListedCategory.agency_count),
                               !.agencies_scraped = Len(DetailEntries)]>>
    /\ files = <<>>
    /\ loc = Listing(ListedCategory.category_link, ListingPage(DetailEntries, NoPager))
    /\ \E sk \in BOOLEAN :
          self = [Self0 EXCEPT !.open = Resources, !.session_id = 1, !.categories_total = 1,
                               !.categories_scraped = 1,
                               !.agencies_total = IntOf(ListedCategory.agency_count),
                               !.agencies_scraped = Len(DetailEntries),
                               !.skip_details = sk]
    /\ fr = [Frame0 EXCEPT !.categories = <<ListedCategory>>, !.ci = 2]
    /\ pc = "details"
    /\ hist = [Hist0 EXCEPT !.runs = 1, !.listed = <<ListedCategory.category_name>>]

NextDetail ==
    \/ SkipDetails
    \/ DetailsBegin
    \/ \E f \in 0..DetailRetries, pg \in LongDetailPages, raises \in BOOLEAN :
          GetAgencyDetail(f, pg, raises)
    \/ DetailsDone
    \/ \E ok \in BOOLEAN : Export(ok)
    \/ ExportRaises
    \/ Complete
    \/ Close
    \/ MainExit

SpecDetail == InitDetail /\ [][NextDetail]_vars

----------------------------------------------------------------------------
(* Listing extraction of one category, on the store that discovery left, with *)
(* pages of up to three entries                                                *)

ListingPages ==
    { ListingPage(<<EntryX, EntryY, EntryZ>>, NextPager),
      ListingPage(<<EntryX, EntryY, EntryZ>>, NoPager),
      ListingPage(<<EntryX, EntryX>>, NextPager),
      ListingPage(<<EntryNoName, EntryStoreFault, EntryY>>, [kind |-> "nonext"]),
      ListingPage(<<>>, NextPager),
      ListingPage(<<EntryZ>>, [kind |-> "error"]) }

\* scrape_all at line 1009, before the first category of the list
InitListing ==
    /\ categories = insert_category(<<>>, ListedCategory.category_name,
                                    ListedCategory.category_link,
                                    ListedCategory.agency_count).tab
    /\ agencies = <<>>
    /\ scraping_status =
          <<[SessionRow EXCEPT !.categories_total = 1,
                               !.agencies_total = IntOf(ListedCategory.agency_count)]>>
    /\ files = <<>>
    /\ loc = Directory
    /\ \E n \in 0..MaxCap :
          self = [Self0 EXCEPT !.open = Resources, !.session_id = 1, !.categories_total = 1,
                               !.agencies_total = IntOf(ListedCategory.agency_count),
                               !.max_agencies_per_category = n]
    /\ fr = [Frame0 EXCEPT !.categories = <<ListedCategory>>, !.ci = 1]
    /\ pc = "for_category"
    /\ hist = [Hist0 EXCEPT !.runs = 1]

NextListing ==
    \/ \E f \in 0..1, pg \in ListingPages : ForCategory(f, pg)
    \/ QueryPage
    \/ ListingAbort
    \/ \E r \in {"200", "404"} : ProcessEntry(r)
    \/ EntriesDone
    \/ \E pg \in ListingPages : AfterEntries(pg)
    \/ MarkScraped
    \/ ListingEnd
    \/ ListingsDone

SpecListing == InitListing /\ [][NextListing]_vars

----------------------------------------------------------------------------
(* Listing extraction of two categories without a cap, with pages whose entries *)
(* raise errors                                                                  *)

FaultyPages ==
    { ListingPage(<<EntryExtractFault, EntryY>>, NextPager),
      ListingPage(<<EntryStoreFault, EntryZ>>, NoPager),
      ListingPage(<<EntryX>>, [kind |-> "error"]) }

SecondCategory ==
    [id |-> 2, category_name |-> ElemB.category_name,
     category_link |-> AbsoluteUrl(ElemB.href), agency_count |-> ElemB.agency_count]

\* scrape_all at line 1009, after discovery of the two categories
InitIsolation ==
    /\ categories =
          insert_category(
              insert_category(<<>>, ListedCategory.category_name,
                              ListedCategory.category_link,
                              ListedCategory.agency_count).tab,
              SecondCategory.category_name, SecondCategory.category_link,
              SecondCategory.agency_count).tab
    /\ agencies = <<>>
    /\ scraping_status =
          <<[SessionRow EXCEPT !.categories_total = 2,
                               !.agencies_total = SumCounts(<<ListedCategory, SecondCategory>>)]>>
    /\ files = <<>>
    /\ loc = Directory
    /\ self = [Self0 EXCEPT !.open = Resources, !.session_id = 1, !.categories_total = 2,
                            !.agencies_total = SumCounts(<<ListedCategory, SecondCategory>>)]
    /\ fr = [Frame0 EXCEPT !.categories = <<ListedCategory, SecondCategory>>, !.ci = 1]
    /\ pc = "for_category"
    /\ hist = [Hist0 EXCEPT !.runs = 1]

NextIsolation ==
    \/ \E f \in 0..1, pg \in FaultyPages : ForCategory(f, pg)
    \/ QueryPage
    \/ ListingAbort
    \/ \E r \in {"200", "404"} : ProcessEntry(r)
    \/ EntriesDone
    \/ \E pg \in FaultyPages : AfterEntries(pg)
    \/ MarkScraped
    \/ ListingEnd
    \/ ListingsDone

SpecIsolation == InitIsolation /\ [][NextIsolation]_vars

----------------------------------------------------------------------------
(* Listing extraction of one category whose page has one entry, with the href of *)
(* the entry's link made of up to MaxChunks pieces                                *)

MaxChunks == 4
HrefChunks == { <<"i", "d", "x", "=">>, <<"i">>, <<"4">>, <<"2">>, <<"&">> }
Hrefs == { Concat(cs) : cs \in SeqsUpTo(HrefChunks, MaxChunks) } \cup {None}
IdxPages == { ListingPage(<<[EntryY EXCEPT !.href = h]>>, NoPager) : h \in Hrefs }

\* without a cap
InitIdx == InitListing /\ self.max_agencies_per_category = 0

NextIdx ==
    \/ \E pg \in IdxPages : ForCategory(1, pg)
    \/ QueryPage
    \/ ProcessEntry("404")
    \/ EntriesDone
    \/ AfterEntries(ListingPage(<<>>, NoPager))
    \/ MarkScraped
    \/ ListingEnd
    \/ ListingsDone

SpecIdx == InitIdx /\ [][NextIdx]_vars

----------------------------------------------------------------------------
(* download_logo alone: called for any category, agency and URL, with any answer *)
(* of the logo server.  hist keeps the calls made, in order.                      *)

MaxLogoCalls == 3

LogoUrls == { Text("u"), NA }
LogoCategories == { Text("A"), <<"A", "/">> }
LogoAgencies == { Text("x"), <<"/", "x">> }

LogoHist0 == [calls |-> 0, log |-> <<>>]

CallDownloadLogo(response, logo_url, category_name, agency_name) ==
    /\ hist.calls < MaxLogoCalls
    /\ LET dl == download_logo(files, response, logo_url, category_name, agency_name)
       IN  /\ files' = dl.files
           /\ hist' = [calls |-> hist.calls + 1,
                       log |-> Append(hist.log,
                                  [logo_url |-> logo_url, category_name |-> category_name,
                                   agency_name |-> agency_name, response |-> response,
                                   fetched |-> dl.fetched, ret |-> dl.ret,
                                   pre |-> files, post |-> dl.files])]
    /\ UNCHANGED <<storeVars, loc, self, fr, pc>>

InitLogo ==
    /\ categories = <<>>
    /\ agencies = <<>>
    /\ scraping_status = <<>>
    /\ files = <<>>
    /\ loc = Blank
    /\ self = Self0
    /\ fr = Frame0
    /\ pc = "idle"
    /\ hist = LogoHist0

NextLogo ==
    \E r \in Responses, u \in LogoUrls, c \in LogoCategories, a \in LogoAgencies :
        CallDownloadLogo(r, u, c, a)

SpecLogo == InitLogo /\ [][NextLogo]_vars

----------------------------------------------------------------------------
(* The page loop of one category without a cap, on a site whose pages past the   *)
(* last entries are empty and still show an enabled next element.  The loop has   *)
(* no bound on current_page (line 524: while has_next_page); the counter, which   *)
(* the code only prints and puts in a screenshot's name, stops at MaxVisits here. *)

EmptyNextPage == ListingPage(<<>>, NextPager)

PagingPages ==
    { ListingPage(<<EntryX>>, NextPager), ListingPage(<<EntryX, EntryZ>>, NextPager),
      ListingPage(<<EntryY>>, NoPager), EmptyNextPage }

\* lines 833-840 on a page from MaxVisits on: the next element is clicked and an
\* empty page with an enabled next element loads
ClickNextAgain ==
    /\ pc = "after_entries"
    /\ ~PageCapCheck
    /\ loc.pager.kind = "next"
    /\ fr.current_page = MaxVisits
    /\ loc' = Listing(loc.url, EmptyNextPage)
    /\ pc' = "query"
    /\ UNCHANGED <<storeVars, files, self, fr, hist>>

NextPaging ==
    \/ \E f \in 0..1, pg \in PagingPages : ForCategory(f, pg)
    \/ QueryPage
    \/ ProcessEntry("404")
    \/ EntriesDone
    \/ \E pg \in PagingPages : AfterEntries(pg)
    \/ ClickNextAgain
    \/ MarkScraped
    \/ ListingEnd
    \/ ListingsDone

\* the program takes its next step whenever it has one
SpecPaging == InitIdx /\ [][NextPaging]_vars /\ WF_vars(NextPaging)

----------------------------------------------------------------------------
(* The page loop of one category without a cap, over pages with every outcome of *)
(* the search for a pagination control and its next element                      *)

AdvancePages == { ListingPage(<<EntryY>>, p) : p \in Pagers } \cup { EmptyNextPage }

NextAdvance ==
    \/ \E pg \in AdvancePages : ForCategory(1, pg)
    \/ QueryPage
    \/ ProcessEntry("404")
    \/ EntriesDone
    \/ \E pg \in AdvancePages : AfterEntries(pg)
    \/ MarkScraped
    \/ ListingEnd
    \/ ListingsDone

SpecAdvance == InitIdx /\ [][NextAdvance]_vars

----------------------------------------------------------------------------
(* navigate_to_url alone, one attempt of its loop at a time.  hist keeps the call: *)
(* its arguments, the loop variable, whether each page.goto made so far came back  *)
(* without an exception, and the value returned.                                   *)

MaxNavCalls == 3     \* calls of navigate_to_url

\* the values the callers pass (lines 402, 507: the default 3; line 879: 2), and 1
NavRetries == 1..ListingRetries
NavUrls == { ElemA.href, AbsoluteUrl(ElemB.href) }

NavHist0 ==
    [calls |-> 0, url |-> <<>>, retries |-> 0, attempt |-> 0, outcomes |-> <<>>,
     ret |-> "none"]

\* a variant that takes the attempt after the last one of the range for the last
LastAttempt_off_by_one(attempt, retries) == attempt = retries

\* line 392: if attempt == retries - 1
LastAttempt(attempt, retries) == attempt = retries - 1

\* line 377: the call; line 379: range(retries) starts at 0
NavCall(url, retries) ==
    /\ pc = "idle"
    /\ hist.calls < MaxNavCalls
    /\ hist' = [NavHist0 EXCEPT !.calls = hist.calls + 1, !.url = url,
                                !.retries = retries, !.ret = "pending"]
    /\ pc' = "nav_loop"
    /\ UNCHANGED <<storeVars, files, loc, self, fr>>

\* lines 380-394: one pass of the loop body.  ok: page.goto and wait_for_load_state
\* came back; otherwise the handler at line 390 runs.  A range that ends without a
\* return leaves the method at its end, which returns None.
NavAttempt(ok) ==
    /\ pc = "nav_loop"
    /\ hist.attempt < hist.retries
    /\ IF ok
       THEN /\ hist' = [hist EXCEPT !.outcomes = Append(@, TRUE), !.ret = "True"]
            /\ loc' = Shown("page", AbsoluteUrl(hist.url), NoContent)
            /\ pc' = "idle"
       ELSE IF LastAttempt(hist.attempt, hist.retries)
       THEN /\ hist' = [hist EXCEPT !.outcomes = Append(@, FALSE), !.ret = "False"]
            /\ pc' = "idle"
            /\ UNCHANGED loc
       ELSE IF hist.attempt + 1 < hist.retries
       THEN /\ hist' = [hist EXCEPT !.outcomes = Append(@, FALSE), !.attempt = @ + 1]
            /\ pc' = "nav_loop"
            /\ UNCHANGED loc
       ELSE /\ hist' = [hist EXCEPT !.outcomes = Append(@, FALSE), !.ret = "None"]
            /\ pc' = "idle"
            /\ UNCHANGED loc
    /\ UNCHANGED <<storeVars, files, self, fr>>

InitNav ==
    /\ categories = <<>>
    /\ agencies = <<>>
    /\ scraping_status = <<>>
    /\ files = <<>>
    /\ loc = Blank
    /\ self = Self0
    /\ fr = Frame0
    /\ pc = "idle"
    /\ hist = NavHist0

NextNav ==
    \/ \E u \in NavUrls, r \in NavRetries : NavCall(u, r)
    \/ \E ok \in BOOLEAN : NavAttempt(ok)

SpecNav == InitNav /\ [][NextNav]_vars

----------------------------------------------------------------------------
(* The Database called from several threads (check_same_thread=False, line 24), one *)
(* statement of a method at a time.  hist keeps the lock (0: free, else the thread  *)
(* inside `with self.lock`), and for each thread where it is in its call:           *)
(*   "idle"    not in a call            "wait"    at `with self.lock`               *)
(*   "select"  before the SELECT        "write"   before the INSERT or UPDATE       *)
(*   "commit"  before the end of the with block                                     *)

MaxThreads == 2       \* threads that call the Database
MaxLockCalls == 4     \* calls of Database methods

LockHist0 ==
    [lock |-> 0, calls |-> 0,
     at |-> [t \in 1..MaxThreads |-> "idle"],
     op |-> [t \in 1..MaxThreads |-> "none"],
     arg |-> [t \in 1..MaxThreads |-> <<>>],
     found |-> [t \in 1..MaxThreads |-> 0]]

\* a variant whose with statement never waits
LockFree_always(lock) == TRUE

\* threading.Lock (line 25): acquire returns when no thread holds the lock
LockFree(lock) == lock = 0

\* a thread calls insert_category (line 82), mark_category_scraped (line 164) or
\* get_unscraped_categories (line 173) and reaches `with self.lock`
LockCall(t, op, arg) ==
    /\ hist.calls < MaxLockCalls
    /\ hist.at[t] = "idle"
    /\ hist' = [hist EXCEPT !.calls = @ + 1, !.at[t] = "wait", !.op[t] = op,
                            !.arg[t] = arg, !.found[t] = 0]
    /\ UNCHANGED <<storeVars, files, loc, self, fr, pc>>

\* lines 84, 166, 175: `with self.lock` acquires the lock
LockAcquire(t) ==
    /\ hist.at[t] = "wait"
    /\ LockFree(hist.lock)
    /\ hist' = [hist EXCEPT !.lock = t,
                            !.at[t] = IF hist.op[t] = "mark_category_scraped"
                                      THEN "write" ELSE "select"]
    /\ UNCHANGED <<storeVars, files, loc, self, fr, pc>>

\* one cursor.execute inside the with block: the SELECT of insert_category (lines
\* 86-90) or of get_unscraped_categories (lines 176-179); the UPDATE or INSERT of
\* insert_category (lines 92-105) on the row the SELECT found; the UPDATE of
\* mark_category_scraped (lines 167-170)
LockStatement(t) ==
    /\ hist.at[t] \in {"select", "write"}
    /\ LET name == hist.arg[t]
           existing == { i \in DOMAIN categories : categories[i].category_name = name }
       IN  IF hist.at[t] = "select"
           THEN /\ hist' = [hist EXCEPT
                              !.found[t] = IF hist.op[t] = "insert_category" /\ existing # {}
                                           THEN Min(existing) ELSE 0,
                              !.at[t] = IF hist.op[t] = "insert_category"
                                        THEN "write" ELSE "commit"]
                /\ UNCHANGED categories
           ELSE /\ categories' =
                      IF hist.op[t] = "mark_category_scraped"
                      THEN mark_category_scraped(categories, IntOf(hist.arg[t]))
                      ELSE IF hist.found[t] # 0
                      THEN [categories EXCEPT ![hist.found[t]] =
                               [@ EXCEPT !.category_link = Text("k"),
                                         !.agency_count = Text("1")]]
                      ELSE Append(categories, CategoryRow(name, Text("k"), Text("1")))
                /\ hist' = [hist EXCEPT !.at[t] = "commit"]
    /\ UNCHANGED <<agencies, scraping_status, files, loc, self, fr, pc>>

\* the with block is left, by its last statement (lines 107-108, 171, 180) or by an
\* error of a statement; either way the lock is released
LockLeave(t, raises) ==
    /\ IF raises THEN hist.at[t] \in {"select", "write", "commit"}
       ELSE hist.at[t] = "commit"
    /\ hist' = [hist EXCEPT !.lock = 0, !.at[t] = "idle"]
    /\ UNCHANGED <<storeVars, files, loc, self, fr, pc>>

InitLock ==
    /\ categories = <<>>
    /\ agencies = <<>>
    /\ scraping_status = <<>>
    /\ files = <<>>
    /\ loc = Blank
    /\ self = Self0
    /\ fr = Frame0
    /\ pc = "idle"
    /\ hist = LockHist0

NextLock ==
    \/ \E t \in 1..MaxThreads :
          \/ \E n \in {ElemA.category_name, ElemB.category_name} :
                LockCall(t, "insert_category", n)
          \/ LockCall(t, "mark_category_scraped", Text("1"))
          \/ LockCall(t, "get_unscraped_categories", <<>>)
    \/ \E t \in 1..MaxThreads : LockAcquire(t)
    \/ \E t \in 1..MaxThreads : LockStatement(t)
    \/ \E t \in 1..MaxThreads, raises \in BOOLEAN : LockLeave(t, raises)

SpecLock == InitLock /\ [][NextLock]_vars

----------------------------------------------------------------------------
(* The Database alone: its methods called in any order on a new store.  hist keeps *)
(* the last call: its name, its arguments, the value returned, the tables before.  *)

MaxCalls == 5     \* calls of Database methods

StoreNames == { Text("A"), Text("B") }
\* (category_link, agency_count) of a category element
StoreLinks == { <<Text("k"), Text("1")>>, <<Text("l"), Text("2")>> }
StoreAgencyNames == { Text("x"), Text("y") }
\* (agency_url, agency_idx) of an entry element
StoreUrls == { <<Text("u"), Text("4")>>, <<NA, None>> }

StoreHist0 ==
    [calls |-> 0, op |-> "none", args |-> <<>>, ret |-> 0,
     pre_categories |-> <<>>, pre_agencies |-> <<>>]

Called(op, args, ret) ==
    [calls |-> hist.calls + 1, op |-> op, args |-> args, ret |-> ret,
     pre_categories |-> categories, pre_agencies |-> agencies]

CallInsertCategory(category_name, category_link, agency_count) ==
    /\ hist.calls < MaxCalls
    /\ LET ins == insert_category(categories, category_name, category_link, agency_count)
       IN  /\ categories' = ins.tab
           /\ hist' = Called("insert_category",
                             [category_name |-> category_name,
                              category_link |-> category_link,
                              agency_count |-> agency_count], ins.id)
    /\ UNCHANGED <<agencies, scraping_status, files, loc, self, fr, pc>>

\* the scraper passes the id insert_category returned and the name of that category
CallInsertAgency(category_id, agency_name, agency_url, agency_idx) ==
    /\ hist.calls < MaxCalls
    /\ category_id \in DOMAIN categories
    /\ LET category_name == categories[category_id].category_name
           agency_detail_url == IF Truthy(agency_idx)
                                THEN BaseUrl \o DetailPath \o agency_idx ELSE None
           ins == insert_agency(agencies, category_id, category_name, agency_name, agency_url, NA, NA, agency_idx, agency_detail_url, None)
       IN  /\ agencies' = ins.tab
           /\ hist' = Called("insert_agency",
                             [category_id |-> category_id, category_name |-> category_name,
                              agency_name |-> agency_name, agency_url |-> agency_url,
                              agency_logo |-> NA, agency_desc |-> NA,
                              agency_idx |-> agency_idx,
                              agency_detail_url |-> agency_detail_url,
                              local_logo_path |-> None], ins.id)
    /\ UNCHANGED <<categories, scraping_status, files, loc, self, fr, pc>>

CallMarkCategoryScraped(category_id) ==
    /\ hist.calls < MaxCalls
    /\ category_id \in DOMAIN categories
    /\ categories' = mark_category_scraped(categories, category_id)
    /\ hist' = Called("mark_category_scraped", [category_id |-> category_id], 0)
    /\ UNCHANGED <<agencies, scraping_status, files, loc, self, fr, pc>>

CallUpdateAgencyDetail(agency_id, detail_desc) ==
    /\ hist.calls < MaxCalls
    /\ agency_id \in DOMAIN agencies
    /\ agencies' = update_agency_detail(agencies, agency_id, detail_desc)
    /\ hist' = Called("update_agency_detail",
                      [agency_id |-> agency_id, detail_desc |-> detail_desc], 0)
    /\ UNCHANGED <<categories, scraping_status, files, loc, self, fr, pc>>

InitStore ==
    /\ categories = <<>>
    /\ agencies = <<>>
    /\ scraping_status = <<>>
    /\ files = <<>>
    /\ loc = Blank
    /\ self = Self0
    /\ fr = Frame0
    /\ pc = "idle"
    /\ hist = StoreHist0

NextStore ==
    \/ \E n \in StoreNames, l \in StoreLinks : CallInsertCategory(n, l[1], l[2])
    \/ \E c \in 1..MaxCalls, n \in StoreAgencyNames, u \in StoreUrls :
          CallInsertAgency(c, n, u[1], u[2])
    \/ \E c \in 1..MaxCalls : CallMarkCategoryScraped(c)
    \/ \E a \in 1..MaxCalls : CallUpdateAgencyDetail(a, Text("d"))

SpecStore == InitStore /\ [][NextStore]_vars

----------------------------------------------------------------------------
(* Claims *)

SelectedNames == { fr.categories[i].category_name : i \in DOMAIN fr.categories }
ListedNames == Range(hist.listed)

\* C1 (resume correctness): when the listing loop of a run has ended, for selected
\* categories a and b where a had scraped = 1 and b had scraped = 0 at the start of the
\* run, get_agencies_in_category was called for b and was not called for a.
C1_ResumeSkipsScraped ==
    pc = "details" =>
        \A a, b \in SelectedNames :
            (a \in hist.start_scraped /\ b \notin hist.start_scraped)
                => (b \in ListedNames /\ a \notin ListedNames)

\* C2: the categories table holds at most one row per category_name; a call of
\* insert_category for a name already present returns the id of the row with that
\* name, overwrites its link and count and changes nothing else; a call for an absent
\* name adds one row with the arguments and returns its id, which no row had before.
C2_CategoryUpsert ==
    /\ \A i, j \in DOMAIN categories :
          categories[i].category_name = categories[j].category_name => i = j
    /\ hist.op = "insert_category" =>
          LET pre == hist.pre_categories
              present == { i \in DOMAIN pre : pre[i].category_name = hist.args.category_name }
          IN  IF present # {}
              THEN /\ hist.ret \in present
                   /\ DOMAIN categories = DOMAIN pre
                   /\ categories[hist.ret] =
                         [pre[hist.ret] EXCEPT !.category_link = hist.args.category_link,
                                               !.agency_count = hist.args.agency_count]
                   /\ \A i \in DOMAIN pre \ {hist.ret} : categories[i] = pre[i]
              ELSE /\ hist.ret \notin DOMAIN pre
                   /\ DOMAIN categories = DOMAIN pre \cup {hist.ret}
                   /\ categories[hist.ret].category_name = hist.args.category_name
                   /\ categories[hist.ret].category_link = hist.args.category_link
                   /\ categories[hist.ret].agency_count = hist.args.agency_count
                   /\ ~categories[hist.ret].scraped
                   /\ \A i \in DOMAIN pre : categories[i] = pre[i]

\* C2 witness: a call for a name that is present, with another link, on a row that
\* was marked scraped
C2_Witness ==
    /\ hist.op = "insert_category"
    /\ \E i \in DOMAIN hist.pre_categories :
          /\ hist.pre_categories[i].category_name = hist.args.category_name
          /\ hist.pre_categories[i].category_link # hist.args.category_link
          /\ hist.pre_categories[i].scraped
          /\ hist.ret = i

AgencyKey(row) == <<row.category_id, row.agency_name>>

\* C3: the agencies table holds at most one row per (category_id, agency_name); a
\* call of insert_agency for a pair already present returns the id of the row with
\* that pair and overwrites its listing fields in place; a call for an absent pair,
\* also when the agency_name is present under another category, adds one row.
C3_AgencyUpsert ==
    /\ \A i, j \in DOMAIN agencies :
          AgencyKey(agencies[i]) = AgencyKey(agencies[j]) => i = j
    /\ hist.op = "insert_agency" =>
          LET pre == hist.pre_agencies
              a == hist.args
              present == { i \in DOMAIN pre : AgencyKey(pre[i]) = AgencyKey(a) }
          IN  IF present # {}
              THEN /\ hist.ret \in present
                   /\ DOMAIN agencies = DOMAIN pre
                   /\ agencies[hist.ret] =
                         [pre[hist.ret] EXCEPT !.agency_url = a.agency_url,
                                               !.agency_logo = a.agency_logo,
                                               !.local_logo_path = a.local_logo_path,
                                               !.agency_desc = a.agency_desc,
                                               !.agency_idx = a.agency_idx,
                                               !.agency_detail_url = a.agency_detail_url]
                   /\ \A i \in DOMAIN pre \ {hist.ret} : agencies[i] = pre[i]
              ELSE /\ hist.ret \notin DOMAIN pre
                   /\ DOMAIN agencies = DOMAIN pre \cup {hist.ret}
                   /\ AgencyKey(agencies[hist.ret]) = AgencyKey(a)
                   /\ agencies[hist.ret].agency_url = a.agency_url
                   /\ agencies[hist.ret].agency_idx = a.agency_idx
                   /\ ~agencies[hist.ret].detailed_scraped
                   /\ \A i \in DOMAIN pre : agencies[i] = pre[i]

\* C3 witness: the same agency_name under two categories, in two rows, and a
\* repeated call for one of the pairs
C3_Witness ==
    /\ hist.op = "insert_agency"
    /\ \E i, j \in DOMAIN agencies :
          /\ agencies[i].agency_name = agencies[j].agency_name
          /\ agencies[i].category_id # agencies[j].category_id
    /\ \E i \in DOMAIN hist.pre_agencies :
          AgencyKey(hist.pre_agencies[i]) = AgencyKey(hist.args) /\ hist.ret = i

\* C4: a category whose scraped flag the listing extraction has just set had its
\* category page loaded (navigate_to_url returned True) and no error in the
\* page-advance step.
C4_ScrapedOnlyAfterCleanTraversal ==
    (pc = "listing_end" /\ categories[Category.id].scraped
                        /\ Category.category_name \notin hist.start_scraped)
        => (hist.nav_ok /\ ~hist.pag_err)

Cap == self.max_agencies_per_category
CategoryRows == { i \in DOMAIN agencies : agencies[i].category_id = Category.id }

LastEntry == fr.agency_elements[fr.idx - 1]
LastEntryRow ==
    agencies[CHOOSE i \in CategoryRows : agencies[i].agency_name = LastEntry.name]
EntryPersisted ==
    /\ pc = "entries"
    /\ fr.idx > 1
    /\ Extractable(LastEntry)
    /\ LastEntry.name \in hist.persisted

\* the positions of h where "idx=" and a digit follow one another
IdxPositions(h) ==
    { p \in 1..(Len(h) - 4) :
        /\ h[p] = "i" /\ h[p + 1] = "d" /\ h[p + 2] = "x" /\ h[p + 3] = "="
        /\ h[p + 4] \in Digits }
\* the digits that follow the first of them, up to the first character that is no digit
DigitsAfterFirstIdx(h) ==
    LET p == Min(IdxPositions(h))
        q == Max({ k \in (p + 4)..Len(h) : \A j \in (p + 4)..k : h[j] \in Digits })
    IN  SubSeq(h, p + 4, q)

\* C7: for an agency that listing extraction has persisted, agency_idx is the digit
\* string that follows the first "idx=" followed by a digit in the href of its link and
\* agency_detail_url is "https://www.i-boss.co.kr/ab-7554-" followed by it; when there
\* is no href or no "idx=" followed by a digit in it, both are null.
C7_IdxAndDetailUrl ==
    EntryPersisted =>
        LET h == LastEntry.href
            row == LastEntryRow
        IN  /\ IF h = None \/ IdxPositions(h) = {}
               THEN row.agency_idx = None /\ row.agency_detail_url = None
               ELSE /\ row.agency_idx = DigitsAfterFirstIdx(h)
                    /\ row.agency_detail_url =
                          <<"https://www.i-boss.co.kr">> \o <<"/ab-7554-">> \o row.agency_idx
            /\ (row.agency_detail_url # None) <=> (row.agency_idx # None)

\* C7 witness: an href in which an "idx=" without digits comes before "idx=4"
C7_Witness ==
    /\ EntryPersisted
    /\ LastEntry.href = <<"i", "d", "x", "=", "&", "i", "d", "x", "=", "4">>
    /\ LastEntryRow.agency_idx = <<"4">>
    /\ LastEntryRow.agency_detail_url = <<"https://www.i-boss.co.kr", "/ab-7554-", "4">>

\* calls i < j of download_logo for the same (category, agency, URL), the URL usable
SameLogoCalls ==
    { ij \in (DOMAIN hist.log) \X (DOMAIN hist.log) :
        /\ ij[1] < ij[2]
        /\ hist.log[ij[1]].logo_url = hist.log[ij[2]].logo_url
        /\ hist.log[ij[1]].category_name = hist.log[ij[2]].category_name
        /\ hist.log[ij[1]].agency_name = hist.log[ij[2]].agency_name
        /\ Truthy(hist.log[ij[1]].logo_url) /\ hist.log[ij[1]].logo_url # NA }
TargetPath(call) ==
    <<"logos/">> \o Sanitize(call.category_name) \o <<"_">> \o Sanitize(call.agency_name)
                \o <<".png">>
FoundFile(call) ==
    /\ ~call.fetched
    /\ call.ret = TargetPath(call)
    /\ call.post = call.pre

\* C8 as stated: of two calls of download_logo for the same (category, agency, URL)
\* the second finds the file, returns its path, does not fetch and does not rewrite
\* the file.
C8_SecondCallNeverFetches ==
    \A ij \in SameLogoCalls : FoundFile(hist.log[ij[2]])

\* C8 amended: a call with a usable URL fetches exactly when no file is at the target
\* path; a call that finds the file returns its path and leaves the files as they
\* are; so of two calls for the same (category, agency, URL) the second finds the file
\* when the first left one (its fetch returned 200, also when the stream broke after
\* the file was opened) and fetches again when the first fetch left no file.
C8_FetchUnlessFileExists ==
    /\ \A k \in DOMAIN hist.log :
          LET call == hist.log[k]
          IN  (Truthy(call.logo_url) /\ call.logo_url # NA) =>
                 IF TargetPath(call) \in DOMAIN call.pre
                 THEN FoundFile(call)
                 ELSE call.fetched
    /\ \A ij \in SameLogoCalls :
          LET first == hist.log[ij[1]]
              second == hist.log[ij[2]]
          IN  IF TargetPath(first) \in DOMAIN first.post
              THEN FoundFile(second)
              ELSE (second.fetched <=> TargetPath(second) \notin DOMAIN second.pre)

\* C8 witness: two calls in a row for the same triple, the first fetch saved the
\* file, the second call returned its path without a fetch
C8_Witness ==
    \E ij \in SameLogoCalls :
        /\ ij[2] = ij[1] + 1
        /\ hist.log[ij[1]].fetched
        /\ hist.log[ij[1]].ret = TargetPath(hist.log[ij[1]])
        /\ FoundFile(hist.log[ij[2]])

\* the agency the last call of get_agency_detail was for, and its row
LastDetailed == fr.details[fr.di - 1]
LastDetailedRow == agencies[LastDetailed.id]

\* " ".join(text.split()): the characters of the text's words in order, with one
\* space where a word ends and another follows
JoinedWords(text) ==
    LET solid == { i \in DOMAIN text : text[i] \notin Whitespace }
        last == IF solid = {} THEN 0 ELSE Max(solid)
        Indexed == [i \in DOMAIN text |-> i]
        Kept(i) == \/ i \in solid
                   \/ i > 1 /\ i < last /\ (i - 1) \in solid
        kept == SelectSeq(Indexed, Kept)
    IN  [k \in DOMAIN kept |-> IF kept[k] \in solid THEN text[kept[k]] ELSE " "]
Prefix(text, n) == [i \in 1..MinOf(Len(text), n) |-> text[i]]
PageText(body) == IF body = None THEN <<>> ELSE body
NormalizedPageText(body) == JoinedWords(Prefix(PageText(body), BodyBudget))

\* get_agency_detail has just reached the detail page, no content selector resolved
\* and no error was raised
FallbackCase ==
    /\ pc = "detail"
    /\ fr.di > 1
    /\ hist.outcome \notin {"none", "no_url", "nav_failed", "error"}
    /\ loc.kind = "detail"
    /\ loc.intro = None

\* C6: every agency row with detailed_scraped = 1 has a non-null agency_detail_desc.
C6_DetailedHasDescription ==
    \A i \in DOMAIN agencies :
        agencies[i].detailed_scraped => agencies[i].agency_detail_desc # None

\* C6 witness: a row was marked detailed by the fallback path
C6_Witness ==
    /\ FallbackCase
    /\ LastDetailedRow.detailed_scraped
    /\ LastDetailedRow.agency_detail_desc # None

WithUrl == { i \in DOMAIN agencies : agencies[i].agency_detail_url # None }
TwoAgenciesCase ==
    /\ pc = "finally"
    /\ scraping_status[self.session_id].status = "completed"
    /\ ~self.skip_details
    /\ Len(agencies) = 2
    /\ Cardinality(WithUrl) = 1

\* C10 as stated: in that scenario, with the detail page of the agency that has a
\* URL fetched, the session ends with details_total = 1 and details_scraped = 1.
C10_DetailCountersOneOne ==
    (TwoAgenciesCase /\ \A i \in WithUrl : agencies[i].detailed_scraped) =>
        /\ scraping_status[self.session_id].details_total = 1
        /\ scraping_status[self.session_id].details_scraped = 1

\* C10 amended: in that scenario the session ends with details_total = 2 (the agency
\* without a detail URL is pending too), the agency without a URL is left with
\* detailed_scraped = 0 and no description, and details_scraped is the number of
\* agencies whose detail was recorded (1 when the fetch succeeds).
C10_DetailCounters ==
    TwoAgenciesCase =>
        /\ scraping_status[self.session_id].details_total = 2
        /\ scraping_status[self.session_id].details_scraped =
               Cardinality({ i \in DOMAIN agencies : agencies[i].detailed_scraped })
        /\ \A i \in DOMAIN agencies \ WithUrl :
               ~agencies[i].detailed_scraped /\ agencies[i].agency_detail_desc = None
        /\ \A i \in DOMAIN agencies : agencies[i].detailed_scraped => i \in WithUrl

\* C10 witness: the scenario with the one fetch successful
C10_Witness ==
    /\ TwoAgenciesCase
    /\ \A i \in WithUrl : agencies[i].detailed_scraped
    /\ scraping_status[self.session_id].details_scraped = 1


\* C11: a session row has session_end null while its status is 'running', and
\* session_end set once its status is 'completed' or 'failed'.
C11_SessionEndSetWhenTerminal ==
    \A i \in DOMAIN scraping_status :
        /\ scraping_status[i].status = "running" => scraping_status[i].session_end = None
        /\ scraping_status[i].status \in {"completed", "failed"}
              => scraping_status[i].session_end # None


Session == scraping_status[self.session_id]

\* C12: a fault that reaches the handler of scrape_all leaves the session with status
\* 'failed', and once scrape_all has returned, on whichever path, the browser context,
\* the browser, the playwright driver and the store connection are closed.
C12_FaultMarksFailedAndReleases ==
    /\ (pc \in {"finally", "main", "idle"}
           /\ hist.fatal \in {"value_error", "store", "export"})
          => Session.status = "failed"
    /\ (pc \in {"main", "idle"} /\ hist.runs > 0) => self.open = {}
    /\ pc \notin {"main", "idle"} => self.open = Resources

\* C12 witness: a run that a fault ended is over, its session is 'failed', nothing is open
C12_Witness ==
    /\ pc = "main"
    /\ hist.fatal = "value_error"
    /\ Session.status = "failed"
    /\ self.open = {}

\* C13: a run whose category discovery yields no category ends with the session
\* 'failed', the browser and the store released, and a non-zero exit status of the
\* process.
C13_NoCategoriesExitsNonZero ==
    (pc = "idle" /\ hist.fatal = "no_categories") =>
        /\ Session.status = "failed"
        /\ self.open = {}
        /\ hist.exit # 0


\* C14: without a cap, a listing extraction that no error ended has persisted every
\* entry with a name that raised no error, on every page up to one without a next
\* element, whatever errors other entries raised; and when the listing loop of the
\* run has ended, get_agencies_in_category was called for every selected category, in
\* order, whatever calls an error ended.
C14_FailureIsolation ==
    /\ (pc = "listing_end" /\ ~hist.aborted /\ Cap = 0) =>
          /\ fr.agencies_collected = hist.offered
          /\ loc.pager.kind # "next"
    /\ pc = "details" =>
          hist.listed = [i \in DOMAIN fr.categories |-> fr.categories[i].category_name]

\* C14 witness: the extraction of the first category was ended by an error; that of
\* the second met entries that raised errors, on two pages, and persisted the others
C14_Witness ==
    /\ pc = "listing_end"
    /\ fr.ci = 2
    /\ hist.aborts = 1
    /\ ~hist.aborted
    /\ ~categories[1].scraped
    /\ hist.entry_errors = 2
    /\ fr.current_page = 2
    /\ fr.agencies_collected = 2


\* the first attempt of the call in hist that came back without an exception (0: none)
FirstLoaded ==
    IF \E k \in DOMAIN hist.outcomes : hist.outcomes[k]
    THEN CHOOSE k \in DOMAIN hist.outcomes :
             hist.outcomes[k] /\ \A j \in 1..(k - 1) : ~hist.outcomes[j]
    ELSE 0

\* C15: navigate_to_url never makes more than `retries` attempts and none after one
\* that succeeded; it returns True when its last attempt succeeded, and False, having
\* made exactly `retries` attempts, when all of them failed; it returns nothing else.
C15_BoundedRetry ==
    /\ Len(hist.outcomes) <= hist.retries
    /\ \A k \in 1..(Len(hist.outcomes) - 1) : ~hist.outcomes[k]
    /\ (pc = "idle" /\ hist.calls > 0) =>
          /\ hist.ret \in {"True", "False"}
          /\ hist.ret = "True" <=> FirstLoaded = Len(hist.outcomes)
          /\ hist.ret = "False" =>
                 FirstLoaded = 0 /\ Len(hist.outcomes) = hist.retries
          /\ navigate_to_url(FirstLoaded, hist.retries)
                 = [ok |-> hist.ret = "True", attempts |-> Len(hist.outcomes)]

\* C15 witness: three attempts failed and the call returned False, after a call that
\* had loaded the page
C15_Witness ==
    /\ pc = "idle"
    /\ hist.retries = ListingRetries
    /\ hist.outcomes = <<FALSE, FALSE, FALSE>>
    /\ hist.ret = "False"
    /\ loc # Blank


\* C16: whenever the page loop of get_agencies_in_category is at the top of its body,
\* it is later left (for the statement after the loop, or by an error that ends the
\* method), also without a cap and with an enabled next element on every page.
C16_PageLoopTerminates == (pc = "query") ~> (pc \in {"mark", "listing_end"})


\* an agency that get_agency_detail skipped for its missing detail URL, in this run or
\* an earlier one, has detailed_scraped = 0 and is in the list of every detail pass
SkippedStayPending ==
    \A id \in hist.skipped :
        /\ id \in DOMAIN agencies
        /\ ~agencies[id].detailed_scraped
        /\ pc = "detail" => \E k \in DOMAIN fr.details : fr.details[k].id = id

\* a call of get_agency_detail with a null detail URL changes neither the page shown
\* nor the store
NullUrlCallChangesNothing ==
    (/\ pc = "detail"
     /\ fr.di <= Len(fr.details)
     /\ fr.details[fr.di].agency_detail_url = None
     /\ fr'.di = fr.di + 1)
        => /\ loc' = loc
           /\ <<categories, agencies, scraping_status>>' = <<categories, agencies, scraping_status>>
           /\ hist'.outcome = "no_url"

\* C17: get_agency_detail called for an agency whose detail URL is null returns at once,
\* without navigating and without changing the store; the agency keeps
\* detailed_scraped = 0 and is in the pending list of every later detail pass.
C17_NullUrlSkippedEveryRun == []SkippedStayPending /\ [][NullUrlCallChangesNothing]_vars

\* C17 witness: the detail pass of the second run begins with an agency in its list
\* that the first run skipped for its missing detail URL
C17_Witness ==
    /\ hist.runs = 2
    /\ pc = "detail"
    /\ hist.attempted = <<>>
    /\ \E k \in DOMAIN fr.details :
          fr.details[k].id \in hist.skipped /\ fr.details[k].agency_detail_url = None


\* the ids of the pending list of the detail pass, in its order
PendingIds == [k \in DOMAIN fr.details |-> fr.details[k].id]

\* C18: the list of the detail pass holds, once each, the agencies that had
\* detailed_scraped = 0 in the store when the pass began, whatever run or category
\* persisted them; get_agency_detail is called for them in the list's order and, when
\* the pass has ended, has been called exactly once for each and for no other agency.
C18_DetailPassAttemptsPending ==
    /\ pc = "detail" =>
          /\ Range(PendingIds) = hist.start_pending
          /\ Len(PendingIds) = Cardinality(hist.start_pending)
          /\ hist.attempted = SubSeq(PendingIds, 1, fr.di - 1)
    /\ pc = "export" =>
          /\ Range(hist.attempted) = hist.start_pending
          /\ Len(hist.attempted) = Cardinality(hist.start_pending)

\* C18 witness: the detail pass of the second run has ended; it was entered with one
\* agency already detailed, which it left out, and it attempted an agency of a
\* category that this run did not list
C18_Witness ==
    /\ hist.runs = 2
    /\ pc = "export"
    /\ hist.attempted # <<>>
    /\ \E i \in DOMAIN agencies : agencies[i].detailed_scraped /\ i \notin hist.start_pending
    /\ \E k \in DOMAIN hist.attempted :
          \A j \in DOMAIN hist.listed :
              agencies[hist.attempted[k]].category_name # hist.listed[j]


\* C19: a run in which a store operation raised is not ended with status 'failed' by
\* it: when scrape_all reaches its finally block after such a fault, the session is
\* not 'failed' and get_agencies_in_category was called for every selected category.
C19_StoreFaultsContained ==
    (pc = "finally" /\ hist.fatal = "store") =>
        /\ Session.status # "failed"
        /\ Len(hist.listed) = Len(fr.categories)


\* C20: within a run, the detail pass begins, and get_agency_detail is called, only
\* when get_agencies_in_category has been called and has returned for every selected
\* category; the export happens only after the detail pass has attempted its whole
\* list, or with no attempt when details are skipped; the session is 'completed' only
\* when the export has returned; until then it is 'running' unless an error ended the run.
C20_OrchestrationOrder ==
    /\ (pc \in {"details", "detail"} \/ hist.attempted # <<>> \/ hist.exported) =>
          hist.listed = [i \in DOMAIN fr.categories |-> fr.categories[i].category_name]
    /\ pc \in {"for_category", "query", "entries", "after_entries", "mark", "listing_end"} =>
          /\ hist.attempted = <<>>
          /\ ~hist.exported
    /\ pc \in {"details", "detail"} => ~hist.exported
    /\ hist.exported =>
          /\ Range(hist.attempted) = hist.start_pending
          /\ self.skip_details => hist.attempted = <<>>
    /\ (hist.runs > 0 /\ Session.status = "completed") =>
          hist.exported /\ pc \in {"finally", "main", "idle"}
    /\ (hist.runs > 0 /\ pc \notin {"finally", "main", "idle"}) => Session.status = "running"

\* C20 witness: a run is 'completed' after the listing of two categories, a detail pass
\* that attempted agencies, and the export
C20_Witness ==
    /\ pc = "finally"
    /\ Session.status = "completed"
    /\ hist.exported
    /\ Len(hist.listed) = 2
    /\ hist.attempted # <<>>


\* the threads inside a with block of a Database method
InFlight == { t \in 1..MaxThreads : hist.at[t] \in {"select", "write", "commit"} }

\* C21: at most one thread is inside a Database method's statements at any time, and
\* that thread holds the lock; a thread is inside only between the acquisition of the
\* lock and its release.
C21_StoreSerialized ==
    /\ Cardinality(InFlight) <= 1
    /\ \A t \in InFlight : hist.lock = t
    /\ hist.lock # 0 => hist.lock \in InFlight

\* C21 witness: a thread is between the SELECT and the write of insert_category while
\* another thread waits at the lock for its insert_category of the same name
C21_Witness ==
    /\ hist.at[1] = "write"
    /\ hist.op[1] = "insert_category"
    /\ hist.at[2] = "wait"
    /\ hist.op[2] = "insert_category"
    /\ hist.arg[2] = hist.arg[1]


\* the page-advance step of the loop, taken when the cap has not ended the loop: on a
\* page without pagination control, without links in it, or whose next element has a
\* disabled class, nothing is clicked, the page stays and the loop ends; on a page
\* whose next element is enabled, one click, and current_page grows by one
AdvanceDecision ==
    (pc = "after_entries" /\ ~PageCapCheck) =>
        /\ loc.pager.kind \in {"none", "nolinks", "disabled"} =>
              /\ hist'.clicks = hist.clicks
              /\ loc' = loc
              /\ fr'.current_page = fr.current_page
              /\ ~fr'.has_next_page
              /\ pc' = "mark"
        /\ loc.pager.kind = "next" =>
              /\ hist'.clicks = hist.clicks + 1
              /\ fr'.current_page = fr.current_page + 1
              /\ fr'.has_next_page
              /\ pc' = "query"

\* C22: with no pagination control or no link in it the loop stops after the current
\* page; a next element with a disabled class is never clicked and the loop stops;
\* otherwise the element is clicked once and the page counter advances by one, so
\* that the counter is always one more than the clicks made.
C22_PageAdvanceDecision ==
    /\ [](pc \in {"query", "entries", "after_entries", "mark"}
             => fr.current_page = 1 + hist.clicks)
    /\ [][AdvanceDecision]_vars

\* C22 witness: the loop has ended on its second page, whose next element is disabled,
\* after one click
C22_Witness ==
    /\ pc = "mark"
    /\ loc.pager.kind = "disabled"
    /\ hist.clicks = 1
    /\ fr.current_page = 2
    /\ ~fr.has_next_page


\* the positions of the discovered list whose category the run is to list: all of them
\* without a target list, else those whose name is an entry of the target list
WantedPositions ==
    { i \in DOMAIN hist.discovered :
          \/ self.target_categories = None
          \/ self.target_categories = <<>>
          \/ \E k \in DOMAIN self.target_categories :
                 self.target_categories[k] = hist.discovered[i].category_name }

RECURSIVE CountsOver(_)
CountsOver(S) ==
    IF S = {} THEN 0
    ELSE LET i == CHOOSE m \in S : TRUE
         IN  IntOf(hist.discovered[i].agency_count) + CountsOver(S \ {i})

\* C23: in a run that reaches its listing loop, the loop's list holds, in the order of
\* discovery, exactly the discovered categories that the target list names (all of
\* them without a target list), the session's agencies_total is the sum of their
\* advisory counts, and when the loop has ended get_agencies_in_category was called
\* for exactly these categories.
C23_CategoryFilter ==
    /\ pc \in {"for_category", "query", "entries", "after_entries", "mark",
               "listing_end", "details"} =>
          /\ Len(fr.categories) = Cardinality(WantedPositions)
          /\ \A i \in WantedPositions : \E k \in DOMAIN fr.categories :
                 fr.categories[k] = hist.discovered[i]
          /\ Session.agencies_total = CountsOver(WantedPositions)
          /\ self.agencies_total = CountsOver(WantedPositions)
    /\ pc = "details" =>
          /\ \A i \in DOMAIN hist.discovered :
                 hist.discovered[i].category_name \in ListedNames <=> i \in WantedPositions
          /\ Len(hist.listed) = Cardinality(WantedPositions)

\* C23 witness: two categories were discovered, the target list names the first, and
\* the listing loop has ended after listing that one alone
C23_Witness ==
    /\ pc = "details"
    /\ Len(hist.discovered) = 2
    /\ self.target_categories = <<hist.discovered[1].category_name>>
    /\ hist.listed = <<hist.discovered[1].category_name>>
    /\ Session.agencies_total = IntOf(hist.discovered[1].agency_count)
    /\ Session.agencies_total > 0


\* C24: in a run with the skip-details flag, get_agency_detail is never called, every
\* agency row has the detailed_scraped and agency_detail_desc it had when the run
\* began (a row the run added has 0 and null), the session's details_total and
\* details_scraped are 0, and a run that no error ended has exported and is
\* 'completed' when scrape_all reaches its finally block.
C24_SkipDetails ==
    (hist.runs > 0 /\ pc # "idle" /\ self.skip_details) =>
        /\ pc # "detail"
        /\ hist.attempted = <<>>
        /\ Session.details_total = 0
        /\ Session.details_scraped = 0
        /\ \A i \in DOMAIN agencies :
              IF i \in DOMAIN hist.start_agencies
              THEN /\ agencies[i].detailed_scraped = hist.start_agencies[i].detailed_scraped
                   /\ agencies[i].agency_detail_desc = hist.start_agencies[i].agency_detail_desc
              ELSE /\ ~agencies[i].detailed_scraped
                   /\ agencies[i].agency_detail_desc = None
        /\ (pc = "finally" /\ hist.fatal = "none") =>
              hist.exported /\ Session.status = "completed"

\* C24 witness: the second run, with the flag, has listed a category again and is
\* 'completed' after the export; the store holds an agency the first run detailed and
\* one it did not
C24_Witness ==
    /\ hist.runs = 2
    /\ self.skip_details
    /\ pc = "finally"
    /\ hist.listed # <<>>
    /\ hist.exported
    /\ Session.status = "completed"
    /\ \E i, j \in DOMAIN agencies :
          agencies[i].detailed_scraped /\ ~agencies[j].detailed_scraped


\* C25: no Database method takes a category's scraped or an agency's detailed_scraped
\* from 1 back to 0 or removes a row, and insert_category and insert_agency leave
\* scraped, detailed_scraped and agency_detail_desc of every row that existed as
\* they were.
C25_FlagsMonotonic ==
    /\ DOMAIN hist.pre_categories \subseteq DOMAIN categories
    /\ DOMAIN hist.pre_agencies \subseteq DOMAIN agencies
    /\ \A i \in DOMAIN hist.pre_categories :
          /\ hist.pre_categories[i].scraped => categories[i].scraped
          /\ hist.op \in {"insert_category", "insert_agency"} =>
                 categories[i].scraped = hist.pre_categories[i].scraped
    /\ \A i \in DOMAIN hist.pre_agencies :
          /\ hist.pre_agencies[i].detailed_scraped => agencies[i].detailed_scraped
          /\ hist.op \in {"insert_category", "insert_agency"} =>
                 /\ agencies[i].detailed_scraped = hist.pre_agencies[i].detailed_scraped
                 /\ agencies[i].agency_detail_desc = hist.pre_agencies[i].agency_detail_desc

\* C25 witness: insert_agency was called for the key of a row that had its detail
\* description, and the row still has it
C25_Witness ==
    /\ hist.op = "insert_agency"
    /\ hist.ret \in DOMAIN hist.pre_agencies
    /\ hist.pre_agencies[hist.ret].detailed_scraped
    /\ agencies[hist.ret].detailed_scraped
    /\ agencies[hist.ret].agency_detail_desc # None
    /\ agencies[hist.ret].agency_url # hist.pre_agencies[hist.ret].agency_url


\* C26: when scrape_all reaches its finally block in a run whose discovery returned at
\* least one category and in which no error reached the handler of scrape_all, the
\* session is 'completed', whatever the filter selected, however the listing
\* extractions ended and whatever export_to_csv returned.
C26_CompletedRegardlessOfUnits ==
    (pc = "finally" /\ hist.discovered # <<>> /\ hist.fatal = "none") =>
        Session.status = "completed"

\* C26 witness: a 'completed' run in which the one listing extraction was ended by an
\* error and export_to_csv returned False
C26_Witness ==
    /\ pc = "finally"
    /\ Session.status = "completed"
    /\ hist.fatal = "none"
    /\ Len(hist.listed) = 1
    /\ hist.aborts = 1
    /\ ~hist.export_ok


SessionCounters ==
    {"categories_total", "categories_scraped", "agencies_total", "agencies_scraped",
     "details_total", "details_scraped"}

\* no step lowers a counter of a session row
CountersGrow ==
    \A i \in DOMAIN scraping_status :
        /\ i \in DOMAIN scraping_status'
        /\ \A f \in SessionCounters : scraping_status'[i][f] >= scraping_status[i][f]

SessionRowsIsolated ==
    /\ Len(scraping_status') \in {Len(scraping_status), Len(scraping_status) + 1}
    /\ Len(scraping_status') = Len(scraping_status) + 1 =>
          /\ hist'.runs = hist.runs + 1
          /\ self'.session_id = Len(scraping_status')
          /\ scraping_status'[Len(scraping_status')].status = "running"
    /\ hist'.runs = hist.runs + 1 => Len(scraping_status') = Len(scraping_status) + 1
    /\ \A i \in DOMAIN scraping_status :
          i # self'.session_id => scraping_status'[i] = scraping_status[i]

\* C28: every scraper instance adds exactly one session row, with status 'running',
\* and updates that row alone: the store holds one row per run, and no step changes
\* the row of an earlier run, also one that an interrupted run left 'running'.
C28_SessionRowsIsolated ==
    /\ [](Len(scraping_status) = hist.runs
             /\ (hist.runs > 0 => self.session_id = hist.runs))
    /\ [][SessionRowsIsolated]_vars

\* C28 witness: the second run is 'completed' with agencies counted in its row, while
\* the row of the first run, which was interrupted, is still 'running'
C28_Witness ==
    /\ hist.runs = 2
    /\ pc = "finally"
    /\ scraping_status[1].status = "running"
    /\ scraping_status[1].session_end = None
    /\ scraping_status[2].status = "completed"
    /\ scraping_status[2].agencies_scraped > 0

====
